---- MODULE Spec2Model ----
(***************************************************************************)
(* Model of the moltworker gateway lifecycle layer.                        *)
(*                                                                         *)
(*  - Orchestrator (src/src/gateway/process.ts): ensureMoltbotGateway,    *)
(*    _ensureMoltbotGatewayOnce, findExistingMoltbotProcess and the        *)
(*    module-level process cache, run against a sandbox runtime whose      *)
(*    calls may succeed, fail with a host-reset error or fail otherwise.   *)
(*    Specification: Spec.                                                 *)
(*  - Startup entrypoint (src/unnamed/part_000, start-openclaw.sh): the    *)
(*    already-running guard, the warm/cold gate, the cold-path setup       *)
(*    sequence and run_supervisor.  Specification: SpecEntry.              *)
(*                                                                         *)
(* JavaScript runs each stretch of code between two awaits atomically, so  *)
(* every orchestrator action is one such stretch: it starts when an        *)
(* awaited runtime call settles and ends where the next call is issued.    *)
(***************************************************************************)
EXTENDS Integers, Sequences, FiniteSets, TLC

VARIABLES
    \* ---- orchestrator (process.ts) ----
    procs,           \* the runtime's process table, in listing order
    cachedProcess,   \* process.ts:19
    cacheStamped,    \* process.ts:20: cacheTimestamp holds a Date.now()
                     \* (TRUE) or 0 (FALSE)
    sinceStamp,      \* Date.now() - cacheTimestamp in ms, while stamped,
                     \* counted up to PROCESS_CACHE_TTL_MS
    changes,         \* number of spontaneous status changes (bounded)
    call,            \* per caller: the activation of ensureMoltbotGateway
    \* ---- startup entrypoint (start-openclaw.sh) ----
    inv,             \* per invocation: position and locals of the script
    marker,          \* /tmp/.openclaw-setup-done exists
    config,          \* /root/.openclaw/openclaw.json exists
    locks,           \* the two well-known lock files that exist
    syncLoops,       \* number of background sync loops started
    r2,              \* the environment holds the remote-storage credentials
    coldBegun,       \* invocations that began the cold path, in order
    \* ---- environment bundle (env.ts) ----
    workerEnv,       \* env: the bindings of the Worker, by name
    envVars,         \* process.ts:173: the record buildEnvVars returned
    \* ---- steps of the cold path, each on its own ----
    restore,         \* part_000:144-198: the restore under its timeout
    sync,            \* part_000:383-423: the background sync loop
    patch,           \* part_000:235-359: the config patch and its document
    doctor           \* part_000:428-436: the doctor step and the config file

orchVars == <<procs, cachedProcess, cacheStamped, sinceStamp, changes, call>>
entryVars == <<inv, marker, config, locks, syncLoops, r2, coldBegun>>
bundleVars == <<workerEnv, envVars>>
stepVars == <<restore, sync, patch, doctor>>
vars == <<procs, cachedProcess, cacheStamped, sinceStamp, changes, call,
          inv, marker, config, locks, syncLoops, r2, coldBegun,
          workerEnv, envVars, restore, sync, patch, doctor>>

(***************************************************************************)
(* Bounds of the model                                                     *)
(***************************************************************************)
MaxProcs == 2          \* processes the table may hold
MaxCalls == 2          \* calls of ensureMoltbotGateway per caller
MaxProcChanges == 1    \* status changes the processes make on their own
MaxCrashCount == 2     \* value the rapid-crash counter may reach
MaxRapidRun == 13      \* the same in a long run of one supervisor
TickMs == 1000         \* length of one clock tick
MaxSlashes == 2        \* '/' characters at the end of a base URL
MaxSpawns == 5         \* processes the table may hold when spawns are counted
MaxListed == 2         \* processes of a table whose lookup is followed
RestoreTickS == 30     \* length of one clock tick of the restore, in s
MaxCycles == 2         \* cycles of the background sync loop
MaxWrites == 2         \* writes to the synced trees by other processes
MaxPatchRuns == 2      \* runs of the config patch over one file

CallerIds == {1, 2}

(***************************************************************************)
(* Program constants                                                       *)
(***************************************************************************)
EXISTING_PROCESS_TIMEOUT_MS == 15000
DO_RESET_RETRY_DELAY_MS == 5000
DO_RESET_MAX_RETRIES == 3
PROCESS_CACHE_TTL_MS == 2000

(***************************************************************************)
(* Text.  A message or a command line is a sequence of words; a substring  *)
(* pattern is a sequence of words too, and String.includes is the search   *)
(* for a contiguous occurrence.                                            *)
(***************************************************************************)
Includes(text, pat) ==
    \E i \in 0..(Len(text) - Len(pat)) :
        \A j \in 1..Len(pat) : text[i + j] = pat[j]

ResetPhrase == <<"Durable", "Object", "reset">>
NetLostPhrase == <<"Network", "connection", "lost">>

\* An error is its message plus the runtime call that raised it ("origin")
\* and what it really was ("kind"): a host reset, something else, or the
\* descriptive startup error built by the orchestrator itself.
NoErr == [kind |-> "none", origin |-> "none", msg |-> <<>>]

RuntimeFailures ==
    { [kind |-> "reset", msg |-> ResetPhrase],
      [kind |-> "reset", msg |-> <<"Error:">> \o NetLostPhrase],
      [kind |-> "other", msg |-> <<"timeout">>] }

MkErr(f, origin) == [kind |-> f.kind, origin |-> origin, msg |-> f.msg]

\* Outcomes of a runtime call: success or one of the failures.
Ok == [kind |-> "ok", msg |-> <<>>]
RuntimeOutcomes == {Ok} \cup RuntimeFailures

\* The callers that have entered ensureMoltbotGateway
Entered == {c \in CallerIds : call[c].ncalls > 0}

\* The outcomes followed: every outcome while one caller uses the runtime;
\* once a second caller has entered, the race between them is followed
\* with a runtime whose calls succeed.
Outcomes == IF Cardinality(Entered) > 1 THEN {Ok} ELSE RuntimeOutcomes

\* process.ts:32-35
isDurableObjectReset(err) ==
    Includes(err.msg, ResetPhrase) \/ Includes(err.msg, NetLostPhrase)

(***************************************************************************)
(* Processes                                                               *)
(***************************************************************************)
NoProc == [id |-> 0, command |-> <<>>, status |-> "none"]

\* process.ts:174
StartCommand == <<"/usr/local/bin/", "start-openclaw.sh">>

LiveStatuses == {"starting", "running"}

\* process.ts:58-63
isGatewayProcess(command) ==
    \/ Includes(command, <<"start-openclaw.sh">>)
    \/ Includes(command, <<"openclaw", "gateway">>)
    \/ Includes(command, <<"start-moltbot.sh">>)
    \/ Includes(command, <<"clawdbot", "gateway">>)

\* process.ts:64-69
isCliCommandSansOnboard(command) ==
    \/ Includes(command, <<"openclaw", "devices">>)
    \/ Includes(command, <<"openclaw", "--version">>)
    \/ Includes(command, <<"clawdbot", "devices">>)
    \/ Includes(command, <<"clawdbot", "--version">>)

isCliCommand(command) ==
    \/ Includes(command, <<"openclaw", "devices">>)
    \/ Includes(command, <<"openclaw", "--version">>)
    \/ Includes(command, <<"openclaw", "onboard">>)
    \/ Includes(command, <<"clawdbot", "devices">>)
    \/ Includes(command, <<"clawdbot", "--version">>)

\* process.ts:71-72: the test applied to each listed process
Matches(p) ==
    /\ isGatewayProcess(p.command)
    /\ ~isCliCommand(p.command)
    /\ p.status \in LiveStatuses

\* process.ts:55-78: the first listed process that matches, or NoProc
FirstMatch(listing) ==
    IF \E i \in 1..Len(listing) : Matches(listing[i])
    THEN listing[CHOOSE i \in 1..Len(listing) :
                    /\ Matches(listing[i])
                    /\ \A j \in 1..(i - 1) : ~Matches(listing[j])]
    ELSE NoProc

(***************************************************************************)
(* The activation of ensureMoltbotGateway of one caller.  hist records     *)
(* what the current attempt did (each runtime call with its real outcome,  *)
(* then the sleep, return or throw that ended it), fails the real kind of  *)
(* the error that ended each earlier attempt, slept the time spent in      *)
(* retry delays, spawned the number of processes the call has started     *)
(* where spawns are counted; the program reads none of the four.  listing *)
(* is the process table a listProcesses in flight has read, where the time *)
(* between the read and the continuation of the lookup is followed.        *)
(***************************************************************************)
IdleCall ==
    [pc |-> "idle", attempt |-> 0, existing |-> NoProc, process |-> NoProc,
     e |-> NoErr, err |-> NoErr, result |-> NoProc, hist |-> <<>>,
     fails |-> <<>>, slept |-> 0, ncalls |-> 0,
     stderr |-> <<>>, spawned |-> 0, listing |-> <<>>]

OffCall == [IdleCall EXCEPT !.pc = "off"]

Event(op, pid, kind) == [op |-> op, pid |-> pid, kind |-> kind]

Logged(r, op, pid, kind) ==
    [r EXCEPT !.hist = Append(@, Event(op, pid, kind))]

\* process.ts:23-27
invalidateProcessCache ==
    /\ cachedProcess' = NoProc
    /\ cacheStamped' = FALSE
    /\ sinceStamp' = PROCESS_CACHE_TTL_MS

KeepCache == UNCHANGED <<cachedProcess, cacheStamped, sinceStamp>>

\* process.ts:73-74 and 86-87: the lookup result p is stored with the
\* current time
StoreCacheNever(p) == KeepCache

StoreCache(p) ==
    /\ cachedProcess' = p
    /\ cacheStamped' = TRUE
    /\ sinceStamp' = 0

\* The clock after d more ms
Later(d) ==
    IF sinceStamp + d < PROCESS_CACHE_TTL_MS THEN sinceStamp + d
    ELSE PROCESS_CACHE_TTL_MS

\* process.ts:108-118: the catch of ensureMoltbotGateway, applied to the
\* activation r in which err was thrown out of the attempt.
RetriesOnceMore(r, err) ==
    isDurableObjectReset(err) /\ r.attempt <= DO_RESET_MAX_RETRIES

RetriesAnyError(r, err) == r.attempt < DO_RESET_MAX_RETRIES

Retries(r, err) ==
    isDurableObjectReset(err) /\ r.attempt < DO_RESET_MAX_RETRIES

Caught(r, err) ==
    IF Retries(r, err)
    THEN [Logged(r, "sleep", 0, err.kind) EXCEPT
              !.pc = "sleep", !.fails = Append(@, err.kind),
              !.err = err]
    ELSE [Logged(r, "throw", 0, err.kind) EXCEPT
              !.pc = "thrown", !.fails = Append(@, err.kind),
              !.err = err]

\* process.ts:233 and 155: the attempt returns a process handle
Returned(r, p) ==
    [Logged(r, "return", p.id, "ok") EXCEPT !.pc = "returned", !.result = p]

\* process.ts:45-51: the cache test at the head of
\* findExistingMoltbotProcess
CacheFresh ==
    /\ cachedProcess # NoProc
    /\ cacheStamped /\ sinceStamp < PROCESS_CACHE_TTL_MS

\* process.ts:47-49: a fresh cached process is returned when its status is
\* starting or running
CacheHitAnyStatus == CacheFresh

CacheHit == CacheFresh /\ cachedProcess.status \in LiveStatuses

\* process.ts:104-107: a caller invokes ensureMoltbotGateway; the first
\* attempt runs up to the await of ensureRcloneConfig.
Calls(c, max) ==
    /\ call[c].pc \in {"idle", "returned", "thrown"}
    /\ call[c].ncalls < max
    /\ call' = [call EXCEPT ![c] =
                   [IdleCall EXCEPT !.pc = "rclone",
                                    !.ncalls = call[c].ncalls + 1]]
    /\ UNCHANGED <<procs, cachedProcess, cacheStamped, sinceStamp, changes>>
    /\ UNCHANGED <<entryVars, bundleVars, stepVars>>

Call(c) == Calls(c, MaxCalls)

\* process.ts:128-132 with 43-54: ensureRcloneConfig settles; on success
\* findExistingMoltbotProcess runs its cache test and either returns the
\* cached process (the probe is issued) or issues listProcesses, after
\* invalidating a fresh cache whose process is no longer live.
Rclones(c, outs) ==
    /\ call[c].pc = "rclone"
    /\ \E o \in outs :
        LET r == Logged(call[c], "rclone", 0, o.kind) IN
        IF o # Ok
        THEN /\ call' = [call EXCEPT ![c] = Caught(r, MkErr(o, "rclone"))]
             /\ KeepCache
        ELSE IF CacheHit
        THEN /\ call' = [call EXCEPT ![c] =
                    [Logged(r, "cacheHit", cachedProcess.id, "ok") EXCEPT
                        !.pc = "probe", !.existing = cachedProcess]]
             /\ KeepCache
        ELSE IF CacheFresh
        THEN /\ call' = [call EXCEPT ![c] =
                    [Logged(r, "cacheStale", cachedProcess.id, "ok") EXCEPT
                        !.pc = "list"]]
             /\ invalidateProcessCache
        ELSE /\ call' = [call EXCEPT ![c] = [r EXCEPT !.pc = "list"]]
             /\ KeepCache
    /\ UNCHANGED <<procs, changes>>
    /\ UNCHANGED <<entryVars, bundleVars, stepVars>>

RcloneDone(c) == Rclones(c, Outcomes)

\* process.ts:54-89 with 131-153 and 171-181: listProcesses settles.  A
\* match is cached and probed; no match, or a failure that is not a host
\* reset, caches null and issues startProcess; a host reset is rethrown.
Lists(c, at, listing, outs) ==
    /\ call[c].pc = at
    /\ \E o \in outs :
        LET r == Logged([call[c] EXCEPT !.listing = <<>>], "list", 0, o.kind)
            m == FirstMatch(listing)
        IN
        IF o = Ok /\ m # NoProc
        THEN /\ call' = [call EXCEPT ![c] =
                    [r EXCEPT !.pc = "probe", !.existing = m]]
             /\ StoreCache(m)
        ELSE IF o # Ok /\ isDurableObjectReset(MkErr(o, "list"))
        THEN /\ call' = [call EXCEPT ![c] = Caught(r, MkErr(o, "list"))]
             /\ KeepCache
        ELSE /\ call' = [call EXCEPT ![c] =
                    [r EXCEPT !.pc = "start", !.existing = NoProc]]
             /\ StoreCache(NoProc)
    /\ UNCHANGED <<procs, changes>>
    /\ UNCHANGED <<entryVars, bundleVars, stepVars>>

ListDone(c) == Lists(c, "list", procs, Outcomes)

\* process.ts:150-162: what follows the liveness probe of the existing
\* process.  Success returns the process; any failure issues kill.
AfterProbeIgnoresSuccess(r, o) == [r EXCEPT !.pc = "kill"]

AfterProbeSkipsKill(r, o) ==
    IF o = Ok THEN Returned(r, r.existing) ELSE [r EXCEPT !.pc = "start"]

AfterProbeReturnsAlways(r, o) == Returned(r, r.existing)

AfterProbe(r, o) ==
    IF o = Ok THEN Returned(r, r.existing) ELSE [r EXCEPT !.pc = "kill"]

\* process.ts:150-162: the liveness probe of the existing process settles.
Probes(c, outs) ==
    /\ call[c].pc = "probe"
    /\ \E o \in outs :
        LET r == Logged(call[c], "probe", call[c].existing.id, o.kind) IN
        call' = [call EXCEPT ![c] = AfterProbe(r, o)]
    /\ UNCHANGED <<procs, cachedProcess, cacheStamped, sinceStamp, changes>>
    /\ UNCHANGED <<entryVars, bundleVars, stepVars>>

ProbeDone(c) == Probes(c, Outcomes)

SetStatus(table, id, status) ==
    [i \in 1..Len(table) |->
        IF table[i].id = id THEN [table[i] EXCEPT !.status = status]
        ELSE table[i]]

\* process.ts:161-181: kill settles.  Success invalidates the cache; a
\* host reset is rethrown; another failure is logged and ignored.  Unless
\* rethrown, startProcess is issued.
Kills(c, outs) ==
    /\ call[c].pc = "kill"
    /\ \E o \in outs :
        LET r == Logged(call[c], "kill", call[c].existing.id, o.kind) IN
        IF o = Ok
        THEN /\ procs' = SetStatus(procs, r.existing.id, "killed")
             /\ invalidateProcessCache
             /\ call' = [call EXCEPT ![c] = [r EXCEPT !.pc = "start"]]
        ELSE /\ UNCHANGED procs
             /\ KeepCache
             /\ call' = [call EXCEPT ![c] =
                    IF isDurableObjectReset(MkErr(o, "kill"))
                    THEN Caught(r, MkErr(o, "kill"))
                    ELSE [r EXCEPT !.pc = "start"]]
    /\ UNCHANGED <<changes>>
    /\ UNCHANGED <<entryVars, bundleVars, stepVars>>

KillDone(c) == Kills(c, Outcomes)

NextId == Len(procs) + 1

\* process.ts:179-206: startProcess settles.  Success invalidates the cache
\* and issues the long port wait; a failure is rethrown.
Starts(c, cap, counted, outs) ==
    /\ call[c].pc = "start"
    /\ \E o \in outs :
        IF o = Ok
        THEN /\ Len(procs) < cap
             /\ LET p == [id |-> NextId, command |-> StartCommand,
                          status |-> "starting"]
                IN /\ procs' = Append(procs, p)
                   /\ call' = [call EXCEPT ![c] =
                          [Logged(call[c], "start", p.id, "ok") EXCEPT
                              !.pc = "waitPort", !.process = p,
                              !.spawned = @ + counted]]
             /\ invalidateProcessCache
        ELSE /\ UNCHANGED procs
             /\ KeepCache
             /\ call' = [call EXCEPT ![c] =
                    Caught(Logged(call[c], "start", 0, o.kind),
                           MkErr(o, "start"))]
    /\ UNCHANGED <<changes>>
    /\ UNCHANGED <<entryVars, bundleVars, stepVars>>

StartDone(c) == Starts(c, MaxProcs, 0, Outcomes)

\* process.ts:213-217: the catch of the startup wait.  A host reset is
\* rethrown; otherwise the error is kept as e and getLogs is issued.
WaitCaught(r, err) ==
    IF isDurableObjectReset(err)
    THEN Caught(r, err)
    ELSE [r EXCEPT !.pc = "logsFail", !.e = err]

\* process.ts:206-210: the port wait of the started process settles.
Waits(c, outs) ==
    /\ call[c].pc = "waitPort"
    /\ \E o \in outs :
        LET r == Logged(call[c], "waitPort", call[c].process.id, o.kind) IN
        call' = [call EXCEPT ![c] =
                    IF o = Ok
                    THEN [r EXCEPT !.pc = "logsOk"]
                    ELSE WaitCaught(r, MkErr(o, "waitPort"))]
    /\ UNCHANGED <<procs, cachedProcess, cacheStamped, sinceStamp, changes>>
    /\ UNCHANGED <<entryVars, bundleVars, stepVars>>

WaitPortDone(c) == Waits(c, Outcomes)

\* process.ts:210-233: getLogs after a successful wait settles.  It sits in
\* the same try as the wait, so its failure is caught at 213 as well.
LogsOk(c, outs) ==
    /\ call[c].pc = "logsOk"
    /\ \E o \in outs :
        LET r == Logged(call[c], "getLogs", call[c].process.id, o.kind) IN
        call' = [call EXCEPT ![c] =
                    IF o = Ok
                    THEN Returned(r, r.process)
                    ELSE WaitCaught(r, MkErr(o, "getLogs"))]
    /\ UNCHANGED <<procs, cachedProcess, cacheStamped, sinceStamp, changes>>
    /\ UNCHANGED <<entryVars, bundleVars, stepVars>>

LogsOkDone(c) == LogsOk(c, Outcomes)

\* What a started process may have written to stderr.
Stderrs ==
    { <<>>,
      <<"EADDRINUSE">>,
      <<"rclone:">> \o ResetPhrase }

\* process.ts:220-222
DescriptiveError(stderr) ==
    [kind |-> "descriptive", origin |-> "startup",
     msg |-> <<"OpenClaw", "gateway", "failed", "to", "start.", "Stderr:">>
             \o (IF stderr = <<>> THEN <<"(empty)">> ELSE stderr)]

\* process.ts:223-227: the catch around getLogs and the throw of the
\* descriptive error, applied to what was thrown inside that try.
LogsCaught(r, logErr) ==
    IF isDurableObjectReset(logErr)
    THEN Caught(r, logErr)
    ELSE Caught(r, r.e)

\* process.ts:216-227: getLogs in the catch of the startup wait settles.
\* With the logs the descriptive error is thrown inside the try, so the
\* catch at 223 receives it like a failure of getLogs.
LogsFailDone(c) ==
    /\ call[c].pc = "logsFail"
    /\ \/ \E stderr \in Stderrs :
            LET r == [Logged(call[c], "getLogs", call[c].process.id, "ok")
                         EXCEPT !.stderr = stderr]
            IN call' = [call EXCEPT ![c] =
                           LogsCaught(r, DescriptiveError(stderr))]
       \/ \E o \in RuntimeFailures :
            LET r == Logged(call[c], "getLogs", call[c].process.id, o.kind)
            IN call' = [call EXCEPT ![c] =
                           LogsCaught(r, MkErr(o, "getLogs"))]
    /\ UNCHANGED <<procs, cachedProcess, cacheStamped, sinceStamp, changes>>
    /\ UNCHANGED <<entryVars, bundleVars, stepVars>>

\* process.ts:114-115 and 105-107: the retry delay ends, attempt is
\* incremented and the next attempt runs up to ensureRcloneConfig.
Wake(c) ==
    /\ call[c].pc = "sleep"
    /\ sinceStamp' = Later(DO_RESET_RETRY_DELAY_MS)
    /\ call' = [call EXCEPT ![c] =
                   [call[c] EXCEPT
                       !.pc = "rclone",
                       !.attempt = @ + 1,
                       !.slept = @ + DO_RESET_RETRY_DELAY_MS,
                       !.existing = NoProc,
                       !.process = NoProc,
                       !.e = NoErr,
                       !.err = NoErr,
                       !.stderr = <<>>,
                       !.hist = <<>>]]
    /\ UNCHANGED <<procs, cachedProcess, cacheStamped, changes>>
    /\ UNCHANGED <<entryVars, bundleVars, stepVars>>

(***************************************************************************)
(* The environment of the orchestrator                                     *)
(***************************************************************************)
\* Time passes.  The program reads the clock only to compare
\* Date.now() - cacheTimestamp with the TTL, so the clock is kept as the
\* time since the last stamp and need not run past the TTL.
Tick ==
    /\ cacheStamped
    /\ sinceStamp < PROCESS_CACHE_TTL_MS
    /\ sinceStamp' = Later(TickMs)
    /\ UNCHANGED <<procs, cachedProcess, cacheStamped, changes, call>>
    /\ UNCHANGED <<entryVars, bundleVars, stepVars>>

\* process.ts:18 and 73: the cache holds the Process object handed out by
\* the runtime.  Whether the runtime updates the status of an object it
\* handed out is its own choice: seen tells whether the cached object of
\* process id shows the new status.
Observed(cached, id, status, seen) ==
    IF seen /\ cached # NoProc /\ cached.id = id
    THEN [cached EXCEPT !.status = status]
    ELSE cached

\* A process of the container comes up or ends on its own.
ProcChange ==
    /\ changes < MaxProcChanges
    /\ changes' = changes + 1
    /\ \E i \in 1..Len(procs), seen \in BOOLEAN :
         \/ /\ procs[i].status = "starting"
            /\ procs' = [procs EXCEPT ![i].status = "running"]
            /\ cachedProcess' =
                   Observed(cachedProcess, procs[i].id, "running", seen)
         \/ /\ procs[i].status = "running"
            /\ procs' = [procs EXCEPT ![i].status = "completed"]
            /\ cachedProcess' =
                   Observed(cachedProcess, procs[i].id, "completed", seen)
    /\ UNCHANGED <<cacheStamped, sinceStamp, call>>
    /\ UNCHANGED <<entryVars, bundleVars, stepVars>>

\* The process tables the first call may find.
Proc(id, command, status) ==
    [id |-> id, command |-> command, status |-> status]

GatewayCommand == <<"openclaw", "gateway", "--port", "18789">>
CliCommand == <<"openclaw", "devices", "list">>

InitTables ==
    { <<>>,
      <<Proc(1, StartCommand, "running")>>,
      <<Proc(1, GatewayCommand, "starting")>>,
      <<Proc(1, StartCommand, "completed")>>,
      <<Proc(1, CliCommand, "running")>>,
      <<Proc(1, StartCommand, "completed"),
        Proc(2, StartCommand, "running")>> }

(***************************************************************************)
(* The environment bundle, buildEnvVars (src/gateway/env.ts).  A string is *)
(* the sequence of its characters; a binding that is not set is undefined. *)
(***************************************************************************)
Undefined == <<"undefined">>

\* env.ts:13-75: if (env.X): undefined and '' are falsy
Truthy(v) == v # Undefined /\ v # <<>>

\* env.ts:10: const envVars = {}
EmptyRecord == <<>>

\* envVars[k] = v
Put(m, k, v) ==
    [x \in (DOMAIN m) \cup {k} |-> IF x = k THEN v ELSE m[x]]

\* if (env.FROM) envVars.TO = env.FROM
CopyIf(m, env, from, to) ==
    IF Truthy(env[from]) THEN Put(m, to, env[from]) ELSE m

RECURSIVE CopyAll(_, _, _)
CopyAll(m, env, pairs) ==
    IF pairs = <<>> THEN m
    ELSE CopyAll(CopyIf(m, env, Head(pairs)[1], Head(pairs)[2]),
                 env, Tail(pairs))

Same(k) == <<k, k>>

\* env.ts:13-25
HeadCopies ==
    << Same("CLOUDFLARE_AI_GATEWAY_API_KEY"),
       Same("CF_AI_GATEWAY_ACCOUNT_ID"),
       Same("CF_AI_GATEWAY_GATEWAY_ID"),
       Same("ANTHROPIC_API_KEY"),
       Same("OPENAI_API_KEY") >>

\* env.ts:44-75
TailCopies ==
    << <<"MOLTBOT_GATEWAY_TOKEN", "SANDBOX_GATEWAY_TOKEN">>,
       <<"DEV_MODE", "OPENCLAW_DEV_MODE">>,
       Same("TELEGRAM_BOT_TOKEN"),
       Same("TELEGRAM_DM_POLICY"),
       Same("TELEGRAM_DM_ALLOW_FROM"),
       Same("DISCORD_BOT_TOKEN"),
       Same("DISCORD_DM_POLICY"),
       Same("SLACK_BOT_TOKEN"),
       Same("SLACK_APP_TOKEN"),
       Same("CF_AI_GATEWAY_MODEL"),
       Same("CF_ACCOUNT_ID"),
       Same("CDP_SECRET"),
       Same("WORKER_URL"),
       Same("GOOGLE_CLIENT_ID"),
       Same("GOOGLE_CLIENT_SECRET"),
       Same("GOOGLE_REFRESH_TOKEN"),
       Same("GOOGLE_CALENDAR_REFRESH_TOKEN"),
       Same("SUPERMEMORY_API_KEY"),
       Same("TWILIO_ACCOUNT_SID"),
       Same("TWILIO_AUTH_TOKEN"),
       Same("TWILIO_PHONE_NUMBER"),
       Same("R2_ACCESS_KEY_ID"),
       Same("R2_SECRET_ACCESS_KEY"),
       Same("R2_BUCKET_NAME") >>

\* env.ts:30: replace(/\/+$/, '')
RECURSIVE StripTrailingSlashes(_)
StripTrailingSlashes(str) ==
    IF str # <<>> /\ str[Len(str)] = "/"
    THEN StripTrailingSlashes(SubSeq(str, 1, Len(str) - 1))
    ELSE str

\* env.ts:27-37: the legacy AI gateway block
Legacy(m, env) ==
    IF Truthy(env["AI_GATEWAY_API_KEY"]) /\ Truthy(env["AI_GATEWAY_BASE_URL"])
    THEN LET normalizedBaseUrl ==
                 StripTrailingSlashes(env["AI_GATEWAY_BASE_URL"])
         IN Put(Put(Put(m, "AI_GATEWAY_BASE_URL", normalizedBaseUrl),
                    "ANTHROPIC_BASE_URL", normalizedBaseUrl),
                "ANTHROPIC_API_KEY", env["AI_GATEWAY_API_KEY"])
    ELSE IF Truthy(env["ANTHROPIC_BASE_URL"])
    THEN Put(m, "ANTHROPIC_BASE_URL", env["ANTHROPIC_BASE_URL"])
    ELSE m

\* env.ts:9-78
buildEnvVars(env) ==
    CopyAll(Legacy(CopyAll(EmptyRecord, env, HeadCopies), env),
            env, TailCopies)

\* The bindings an environment may hold: those buildEnvVars reads, and one
\* it does not read.
LegacyKeys ==
    {"ANTHROPIC_API_KEY", "AI_GATEWAY_API_KEY", "AI_GATEWAY_BASE_URL",
     "ANTHROPIC_BASE_URL"}

Sources(pairs) == {pairs[n][1] : n \in 1..Len(pairs)}

BindingNames ==
    Sources(HeadCopies) \cup Sources(TailCopies) \cup LegacyKeys
        \cup {"OPENCLAW_GATEWAY_TOKEN"}

RECURSIVE Slashes(_)
Slashes(n) == IF n = 0 THEN <<>> ELSE <<"/">> \o Slashes(n - 1)

\* Values of a base URL: unset, empty, only slashes, a host with and
\* without slashes at its end.
UrlValues ==
    {Undefined}
        \cup {Slashes(n) : n \in 0..MaxSlashes}
        \cup {<<"h">> \o Slashes(n) : n \in 0..MaxSlashes}

\* The values of binding k: unset, empty, and a value of its own.
Secret(k) == <<k>>

ValuesOf(k) ==
    IF k = "AI_GATEWAY_BASE_URL" THEN UrlValues
    ELSE {Undefined, <<>>, Secret(k)}

NoEnv == [k \in BindingNames |-> Undefined]

Bindings(a, g, u, b, other, v) ==
    [k \in BindingNames |->
        CASE k = "ANTHROPIC_API_KEY" -> a
          [] k = "AI_GATEWAY_API_KEY" -> g
          [] k = "AI_GATEWAY_BASE_URL" -> u
          [] k = "ANTHROPIC_BASE_URL" -> b
          [] k = other -> v
          [] OTHER -> Undefined]

\* The environments explored: every combination of values of the four
\* bindings of the legacy block, with at most one other binding set.
WorkerEnvs ==
    { Bindings(a, g, u, b, other, v) :
        a \in ValuesOf("ANTHROPIC_API_KEY"),
        g \in ValuesOf("AI_GATEWAY_API_KEY"),
        u \in ValuesOf("AI_GATEWAY_BASE_URL"),
        b \in ValuesOf("ANTHROPIC_BASE_URL"),
        other \in BindingNames \ LegacyKeys,
        v \in {Undefined, <<>>, <<"v">>} }

\* process.ts:173 not reached yet, and after the record was handed to
\* startProcess
NotBuilt == [notBuilt |-> <<"-">>]
HandedOver == [handedOver |-> <<"-">>]

BundleIdle ==
    /\ workerEnv = NoEnv
    /\ envVars = NotBuilt

\* The steps of the cold path that are followed on their own, while they
\* are not followed.
NotFollowed == [pc |-> "off"]

StepsIdle ==
    /\ restore = NotFollowed
    /\ sync = NotFollowed
    /\ patch = NotFollowed
    /\ doctor = NotFollowed

(***************************************************************************)
(* The startup entrypoint, start-openclaw.sh (src/unnamed/part_000).       *)
(* Every invocation is a process of its own running the script; the        *)
(* invocations of one container share its file system and process table.   *)
(* An action is one command of the script (or one block of commands that   *)
(* touch no shared state).                                                 *)
(***************************************************************************)
\* The invocations: two, so that one can arrive at any point of the other.
InvIds == {1, 2}

\* part_000:9, 50-53 and the position in the script.  errexit is the shell
\* option of set -e; sinceStart is $(date +%s) - last_start_time, the
\* seconds since the stamp of line 64 (-1: never stamped); elapsed is the
\* local of line 73 (-1 outside the classification).  The script reads
\* none of these: tokenAtStart, the value tokenSet had when the script
\* started; ran, the set of setup steps the invocation has executed;
\* saw, what the gate found; gap, the seconds from the previous stamp to
\* the current one (-1: no previous one); ranFor, the seconds the gateway
\* that just exited was up; streak, the number of most recent consecutive
\* gateway runs that were up for less than the rapid-crash window.
IdleInv ==
    [pc |-> "idle", path |-> "none", exit |-> -1,
     gw |-> FALSE, rapid_crash_count |-> 0, sleepFor |-> 0,
     tokenSet |-> TRUE, ran |-> {},
     saw |-> [marker |-> FALSE, config |-> FALSE],
     tokenAtStart |-> TRUE,
     errexit |-> TRUE, sinceStart |-> -1, elapsed |-> -1,
     gap |-> -1, ranFor |-> -1, streak |-> 0]

\* part_000:116-118
r2_configured == r2

LockFiles == {"/tmp/openclaw-gateway.lock", "/root/.openclaw/gateway.lock"}

\* part_000:14: pgrep -f "openclaw gateway" finds a process
GatewayRunning == \E j \in InvIds : inv[j].gw

GuardNeverExits == FALSE

\* part_000:14-17: the already-running guard
GuardExits == GatewayRunning

SetPlusESkipped == TRUE

\* part_000:22: set +e; the value of the errexit option after it
SetPlusE == FALSE

\* part_000:9-12: under set -e a failing command that is not guarded by
\* || ends the script
Aborts(errexit, failed) == errexit /\ failed

\* The script after a command that may fail: it goes on as next, or ends
\* with a non-zero exit code.
Proceeds(r, failed, next) ==
    IF Aborts(r.errexit, failed)
    THEN [r EXCEPT !.pc = "exited", !.exit = 1]
    ELSE next

UnsetSkipped(tokenSet) == tokenSet

\* part_000:48: unset OPENCLAW_GATEWAY_TOKEN; whether the variable is set
\* after it
AfterUnset(tokenSet) == FALSE

StampKept(since) == since

\* part_000:57 and 64: last_start_time=$current_time; the seconds since
\* the stamp, right after it
Stamped(since) == 0

\* part_000:9-34: the script starts with token telling whether
\* OPENCLAW_GATEWAY_TOKEN is in its environment; it runs the guard and
\* either exits with code 0 or turns errexit off and goes on to the gate.
Begins(i, token) ==
    /\ inv[i].pc = "idle"
    /\ inv' = [inv EXCEPT ![i] =
                  IF GuardExits
                  THEN [@ EXCEPT !.pc = "exited", !.exit = 0]
                  ELSE [@ EXCEPT !.pc = "gate", !.errexit = SetPlusE,
                                 !.tokenSet = token,
                                 !.tokenAtStart = token]]
    /\ UNCHANGED <<marker, config, locks, syncLoops, coldBegun>>
    /\ UNCHANGED orchVars

\* The orchestrator starts the script at any time, in an environment that
\* may hold the token.
Invoke(i) ==
    /\ \A j \in 1..(i - 1) : inv[j].pc # "idle"
    /\ Begins(i, TRUE)
    /\ UNCHANGED r2
    /\ UNCHANGED <<bundleVars, stepVars>>

GateTrustsMarker == marker

\* part_000:104: [ -f "$SETUP_MARKER" ] && [ -f "$CONFIG_FILE" ]
GateWarm == marker /\ config

\* part_000:104-110 and 41-53: the warm/cold gate.  Warm enters
\* run_supervisor, which unsets the token and sets its locals; cold goes on
\* to the setup sequence.
Gate(i) ==
    /\ inv[i].pc = "gate"
    /\ IF GateWarm
       THEN /\ inv' = [inv EXCEPT ![i] =
                  [@ EXCEPT !.pc = "sup_top", !.path = "warm",
                            !.tokenSet = AfterUnset(@),
                            !.rapid_crash_count = 0,
                            !.saw = [marker |-> marker, config |-> config]]]
            /\ UNCHANGED coldBegun
       ELSE /\ inv' = [inv EXCEPT ![i] =
                  [@ EXCEPT !.pc = "restore", !.path = "cold",
                            !.saw = [marker |-> marker, config |-> config]]]
            /\ coldBegun' = Append(coldBegun, i)
    /\ UNCHANGED <<marker, config, locks, syncLoops, r2>>
    /\ UNCHANGED <<orchVars, bundleVars, stepVars>>

\* part_000:144-198: the restore from remote storage, run only with the
\* credentials.  It may bring a config file or not (no backup, a failure,
\* the 60 s timeout); either way the script goes on.  failed: an unguarded
\* command of the step (mkdir, cat, touch of setup_rclone) fails.
Restore(i) ==
    /\ inv[i].pc = "restore"
    /\ \E failed \in BOOLEAN :
        IF r2_configured
        THEN /\ inv' = [inv EXCEPT ![i] = Proceeds(@, failed,
                  [@ EXCEPT !.pc = "onboard", !.ran = @ \cup {"restore"}])]
             /\ \E restored \in BOOLEAN : config' = (config \/ restored)
        ELSE /\ inv' = [inv EXCEPT ![i] = [@ EXCEPT !.pc = "onboard"]]
             /\ UNCHANGED config
    /\ UNCHANGED <<marker, locks, syncLoops, coldBegun, r2>>
    /\ UNCHANGED <<orchVars, bundleVars, stepVars>>

\* part_000:203-230: onboarding, run only when there is no config file; it
\* may write one, fail or hit its 60 s timeout.
Onboard(i) ==
    /\ inv[i].pc = "onboard"
    /\ \E failed \in BOOLEAN :
        IF ~config
        THEN /\ inv' = [inv EXCEPT ![i] = Proceeds(@, failed,
                  [@ EXCEPT !.pc = "patch", !.ran = @ \cup {"onboard"}])]
             /\ \E written \in BOOLEAN : config' = written
        ELSE /\ inv' = [inv EXCEPT ![i] = [@ EXCEPT !.pc = "patch"]]
             /\ UNCHANGED config
    /\ UNCHANGED <<marker, locks, syncLoops, coldBegun, r2>>
    /\ UNCHANGED <<orchVars, bundleVars, stepVars>>

\* part_000:235-378: the config patch, which writes the config file unless
\* node fails before the write, then the copy of the bootstrap files.
Patch(i) ==
    /\ inv[i].pc = "patch"
    /\ \E failed \in BOOLEAN :
        /\ inv' = [inv EXCEPT ![i] = Proceeds(@, failed,
              [@ EXCEPT !.pc = "sync", !.ran = @ \cup {"patch"}])]
        /\ \E written \in BOOLEAN : config' = (config \/ written)
    /\ UNCHANGED <<marker, locks, syncLoops, coldBegun, r2>>
    /\ UNCHANGED <<orchVars, bundleVars, stepVars>>

\* part_000:383-423: the background sync loop is started, only with the
\* credentials.
\* part_000:385-388: the loop's subshell as it starts: it has touched its
\* marker, no file is newer than it, and it sleeps.
LoopStarted ==
    [pc |-> "sleep", newer |-> {}, changed |-> {}, cmds |-> <<>>,
     cycle |-> 0, marker |-> 0, lastSync |-> -1, writes |-> 0,
     pending |-> {}]

StartsSync(i, followed) ==
    /\ inv[i].pc = "sync"
    /\ IF r2_configured
       THEN /\ inv' = [inv EXCEPT ![i] =
                  [@ EXCEPT !.pc = "doctor", !.ran = @ \cup {"sync"}]]
            /\ syncLoops' = syncLoops + 1
            /\ sync' = IF followed THEN LoopStarted ELSE sync
       ELSE /\ inv' = [inv EXCEPT ![i] = [@ EXCEPT !.pc = "doctor"]]
            /\ UNCHANGED <<syncLoops, sync>>
    /\ UNCHANGED <<marker, config, locks, coldBegun, r2>>
    /\ UNCHANGED <<orchVars, bundleVars, restore, patch, doctor>>

StartSync(i) == StartsSync(i, FALSE)

\* part_000:428-458: the doctor step, which may fail or hit its 30 s
\* timeout (it leaves the config file in place: a rollback copies the
\* snapshot back only if there is one), then rm -f "$CONFIG_DIR"/*.lock
\* and the dump of the config.
Doctor(i) ==
    /\ inv[i].pc = "doctor"
    /\ \E failed \in BOOLEAN :
        inv' = [inv EXCEPT ![i] = Proceeds(@, failed,
              [@ EXCEPT !.pc = "mark", !.ran = @ \cup {"doctor"}])]
    /\ locks' = locks \ {"/root/.openclaw/gateway.lock"}
    /\ UNCHANGED <<marker, config, syncLoops, coldBegun, r2>>
    /\ UNCHANGED <<orchVars, bundleVars, stepVars>>

\* part_000:463-466 and 41-53: touch "$SETUP_MARKER", which writes the
\* marker unless it fails, then run_supervisor, which unsets the token and
\* sets its locals.
Mark(i) ==
    /\ inv[i].pc = "mark"
    /\ \E failed \in BOOLEAN :
        /\ marker' = (marker \/ ~failed)
        /\ inv' = [inv EXCEPT ![i] = Proceeds(@, failed,
              [@ EXCEPT !.pc = "sup_top", !.ran = @ \cup {"marker"},
                        !.tokenSet = AfterUnset(@),
                        !.rapid_crash_count = 0])]
    /\ UNCHANGED <<config, locks, syncLoops, coldBegun, r2>>
    /\ UNCHANGED <<orchVars, bundleVars, stepVars>>

\* part_000:55-64: the head of a supervisor iteration reads the clock,
\* removes both lock files and stamps last_start_time.
SupClean(i) ==
    /\ inv[i].pc = "sup_top"
    /\ locks' = locks \ LockFiles
    /\ inv' = [inv EXCEPT ![i] =
          [@ EXCEPT !.pc = "sup_launch",
                    !.gap = inv[i].sinceStart,
                    !.sinceStart = Stamped(@)]]
    /\ UNCHANGED <<marker, config, syncLoops, coldBegun, r2>>
    /\ UNCHANGED <<orchVars, bundleVars, stepVars>>

\* part_000:66: the gateway executable is launched and the script waits
\* for it.  A running gateway holds its lock files.
SupLaunch(i) ==
    /\ inv[i].pc = "sup_launch"
    /\ inv' = [inv EXCEPT ![i] = [@ EXCEPT !.pc = "sup_wait", !.gw = TRUE]]
    /\ locks' = LockFiles
    /\ UNCHANGED <<marker, config, syncLoops, coldBegun, r2>>
    /\ UNCHANGED <<orchVars, bundleVars, stepVars>>

MAX_RAPID_CRASHES == 5
RAPID_CRASH_WINDOW == 30

\* Seconds a gateway may be up before it exits: just under the window and
\* the window itself.
Elapsed == {RAPID_CRASH_WINDOW - 1, RAPID_CRASH_WINDOW}

\* The same with a run so short that the next start comes within the
\* window of the previous one.
RunSeconds == {1} \cup Elapsed

ClassifiedInclusive(count, elapsed) ==
    IF elapsed <= RAPID_CRASH_WINDOW THEN count + 1 ELSE 0

\* part_000:74-79
Classified(count, elapsed) ==
    IF elapsed < RAPID_CRASH_WINDOW THEN count + 1 ELSE 0

BackoffUncapped(count) ==
    IF count >= MAX_RAPID_CRASHES THEN count * 10 ELSE 3

BackoffFromThreshold(count) ==
    IF count >= MAX_RAPID_CRASHES
    THEN (IF (count - 4) * 10 > 120 THEN 120 ELSE (count - 4) * 10)
    ELSE 3

\* part_000:82-90
Backoff(count) ==
    IF count >= MAX_RAPID_CRASHES
    THEN (IF count * 10 > 120 THEN 120 ELSE count * 10)
    ELSE 3

AfterExitGivingUp(count) ==
    IF count >= MAX_RAPID_CRASHES THEN "exited" ELSE "sup_sleep"

\* part_000:55 and 86-91: while true; whatever the counter, the iteration
\* ends in a sleep and the loop goes on
AfterExit(count) == "sup_sleep"

\* part_000:67-90: the gateway exits after ran seconds; elapsed is computed
\* from the clock and the stamp, the run is classified and the sleep
\* before the next start begins.  The lock files of the gateway stay
\* behind.  cap bounds the counter, runs the durations.
Exits(i, cap, runs) ==
    /\ inv[i].pc = "sup_wait"
    /\ \E ran \in runs :
         LET since == inv[i].sinceStart + ran
             elapsed == since
             count == Classified(inv[i].rapid_crash_count, elapsed)
         IN
         /\ count <= cap
         /\ inv' = [inv EXCEPT ![i] =
               [@ EXCEPT !.pc = AfterExit(count), !.gw = FALSE,
                         !.sinceStart = since,
                         !.elapsed = elapsed,
                         !.rapid_crash_count = count,
                         !.sleepFor = Backoff(count),
                         !.ranFor = ran,
                         !.streak = IF ran < RAPID_CRASH_WINDOW
                                    THEN @ + 1 ELSE 0]]
    /\ UNCHANGED <<marker, config, locks, syncLoops, coldBegun, r2>>
    /\ UNCHANGED <<orchVars, bundleVars, stepVars>>

\* The exit of a gateway among several invocations
GatewayExit(i) == Exits(i, MaxCrashCount, Elapsed)

\* The exit of a gateway in a long run of one supervisor
GatewayExitLong(i) == Exits(i, MaxRapidRun, RunSeconds)

\* part_000:86-91: the sleep ends and the loop starts over.
SupWake(i) ==
    /\ inv[i].pc = "sup_sleep"
    /\ inv' = [inv EXCEPT ![i] =
          [@ EXCEPT !.pc = "sup_top",
                    !.sinceStart = @ + inv[i].sleepFor,
                    !.sleepFor = 0,
                    !.elapsed = -1, !.gap = -1, !.ranFor = -1]]
    /\ UNCHANGED <<marker, config, locks, syncLoops, coldBegun, r2>>
    /\ UNCHANGED <<orchVars, bundleVars, stepVars>>

\* The container's storage layers diverge: the config file is lost while
\* whatever is under /tmp stays.
ConfigLost ==
    /\ config
    /\ config' = FALSE
    /\ UNCHANGED <<inv, marker, locks, syncLoops, coldBegun, r2>>
    /\ UNCHANGED <<orchVars, bundleVars, stepVars>>

EntryIdle ==
    /\ inv = [i \in InvIds |-> IdleInv]
    /\ marker = FALSE
    /\ config = FALSE
    /\ locks = {}
    /\ syncLoops = 0
    /\ coldBegun = <<>>

OrchInit(active) ==
    /\ procs \in InitTables
    /\ cachedProcess = NoProc
    /\ cacheStamped = FALSE
    /\ sinceStamp = PROCESS_CACHE_TTL_MS
    /\ changes = 0
    /\ call = [c \in CallerIds |-> IF c \in active THEN IdleCall ELSE OffCall]

Init ==
    /\ OrchInit({1})
    /\ EntryIdle
    /\ r2 = FALSE
    /\ BundleIdle
    /\ StepsIdle

OrchStep(c) ==
    \/ Call(c)
    \/ RcloneDone(c)
    \/ ListDone(c)
    \/ ProbeDone(c)
    \/ KillDone(c)
    \/ StartDone(c)
    \/ WaitPortDone(c)
    \/ LogsOkDone(c)
    \/ LogsFailDone(c)
    \/ Wake(c)

Next ==
    \/ \E c \in CallerIds : OrchStep(c)
    \/ Tick
    \/ ProcChange

Spec == Init /\ [][Next]_vars

\* Concurrent callers of ensureMoltbotGateway in a container with an empty
\* process table, one call each; the processes change status only through
\* the callers.
InitSpawn ==
    /\ procs = <<>>
    /\ cachedProcess = NoProc
    /\ cacheStamped = FALSE
    /\ sinceStamp = PROCESS_CACHE_TTL_MS
    /\ changes = 0
    /\ call = [c \in CallerIds |-> IdleCall]
    /\ EntryIdle
    /\ r2 = FALSE
    /\ BundleIdle
    /\ StepsIdle

CallOnce(c) == Calls(c, 1)

StartDoneCounted(c) == Starts(c, MaxSpawns, 1, Outcomes)

NextSpawn ==
    \/ \E c \in CallerIds :
          \/ CallOnce(c)
          \/ RcloneDone(c)
          \/ ListDone(c)
          \/ ProbeDone(c)
          \/ KillDone(c)
          \/ StartDoneCounted(c)
          \/ WaitPortDone(c)
          \/ LogsOkDone(c)
          \/ LogsFailDone(c)
          \/ Wake(c)
    \/ Tick

SpecSpawn == InitSpawn /\ [][NextSpawn]_vars

(***************************************************************************)
(* Two callers whose runtime calls are in flight at the same time.  The    *)
(* runtime calls succeed, except that a port wait may run into its         *)
(* timeout and startProcess may fail with an error that is not a host      *)
(* reset.  A listProcesses in flight reads the process table at some       *)
(* point before the lookup continues with what it read.                    *)
(***************************************************************************)
Timeout == [kind |-> "other", msg |-> <<"timeout">>]

RaceOutcomes == {Ok, Timeout}

StatusOf(id) ==
    IF \E i \in 1..Len(procs) : procs[i].id = id
    THEN procs[CHOOSE i \in 1..Len(procs) : procs[i].id = id].status
    ELSE "none"

\* The port of a started process is not open while its starter is still in
\* the startup wait, nor once the process has been killed.
PortClosed(id) ==
    \/ StatusOf(id) = "killed"
    \/ \E d \in CallerIds :
          call[d].pc = "waitPort" /\ call[d].process.id = id

\* process.ts:54: the runtime reads its process table for a listProcesses
\* in flight.
ListSnap(c) ==
    /\ call[c].pc = "list"
    /\ call' = [call EXCEPT ![c] =
                   [@ EXCEPT !.pc = "listed", !.listing = procs]]
    /\ UNCHANGED <<procs, cachedProcess, cacheStamped, sinceStamp, changes>>
    /\ UNCHANGED <<entryVars, bundleVars, stepVars>>

\* process.ts:54-89: the await of listProcesses resumes with what was read.
ListSettles(c) == Lists(c, "listed", call[c].listing, {Ok})

\* process.ts:150-153: the 15 s probe, which times out on a closed port.
ProbeRaced(c) ==
    Probes(c, IF PortClosed(call[c].existing.id) THEN {Timeout}
              ELSE RaceOutcomes)

InitRace ==
    /\ OrchInit(CallerIds)
    /\ EntryIdle
    /\ r2 = FALSE
    /\ BundleIdle
    /\ StepsIdle

NextRace ==
    \/ \E c \in CallerIds :
          \/ Call(c)
          \/ Rclones(c, {Ok})
          \/ ListSnap(c)
          \/ ListSettles(c)
          \/ ProbeRaced(c)
          \/ Kills(c, {Ok})
          \/ Starts(c, MaxSpawns, 0, RaceOutcomes)
          \/ Waits(c, {Ok})
          \/ LogsOk(c, {Ok})
    \/ Tick

SpecRace == InitRace /\ [][NextRace]_vars

(***************************************************************************)
(* The restore followed command by command (part_000:144-198).  `timeout   *)
(* 60 bash -c` runs a shell that starts three sub-restores in the          *)
(* background and waits for them.  A sub-restore ends on its own at any    *)
(* time or never.  restore.clock is the time since the timeout started;    *)
(* time does not pass the deadline while the timeout is still running,     *)
(* which is what the timeout command provides.                             *)
(***************************************************************************)
RESTORE_TIMEOUT == 60

SubRestores == {"config", "workspace", "skills"}

\* part_000:151: the processes the expiring timeout signals.  timeout makes
\* itself the leader of a process group and signals the group; the shell
\* and the background jobs it started without job control are in it.
TermReachesShellOnly == {}

TermReaches == SubRestores

\* part_000:144-151: the credentials are there; setup_rclone, then the
\* timeout starts the shell and the shell its three background jobs.
RestoreBegin(i) ==
    /\ inv[i].pc = "restore"
    /\ r2_configured
    /\ restore = NotFollowed
    /\ \E failed \in BOOLEAN :
          inv' = [inv EXCEPT ![i] = Proceeds(@, failed, @)]
    /\ restore' = [pc |-> "running", clock |-> 0, timedOut |-> FALSE,
                   task |-> [t \in SubRestores |-> "running"]]
    /\ UNCHANGED <<marker, config, locks, syncLoops, coldBegun, r2>>
    /\ UNCHANGED <<orchVars, bundleVars, sync, patch, doctor>>

\* part_000:196-198: no credentials, nothing is restored.
RestoreNone(i) ==
    /\ inv[i].pc = "restore"
    /\ ~r2_configured
    /\ inv' = [inv EXCEPT ![i] = [@ EXCEPT !.pc = "onboard"]]
    /\ UNCHANGED <<marker, config, locks, syncLoops, coldBegun, r2>>
    /\ UNCHANGED <<orchVars, bundleVars, stepVars>>

\* part_000:153-190: a sub-restore ends, having copied its files or not;
\* the config one may have brought the config file.
SubRestoreEnds(t) ==
    /\ restore.pc = "running"
    /\ restore.task[t] = "running"
    /\ restore' = [restore EXCEPT !.task[t] = "ended"]
    /\ \E restored \in BOOLEAN :
          config' = (config \/ (restored /\ t = "config"))
    /\ UNCHANGED <<inv, marker, locks, syncLoops, coldBegun, r2>>
    /\ UNCHANGED <<orchVars, bundleVars, sync, patch, doctor>>

\* Time passes while the timeout runs.
RestoreTick ==
    /\ restore.pc = "running"
    /\ restore.clock < RESTORE_TIMEOUT
    /\ restore' = [restore EXCEPT !.clock =
                      IF @ + RestoreTickS < RESTORE_TIMEOUT
                      THEN @ + RestoreTickS ELSE RESTORE_TIMEOUT]
    /\ UNCHANGED <<inv, marker, config, locks, syncLoops, coldBegun, r2>>
    /\ UNCHANGED <<orchVars, bundleVars, sync, patch, doctor>>

\* part_000:193-195: wait returns when the three jobs have ended, the shell
\* exits, timeout exits with it and the script goes on.
RestoreJoined(i) ==
    /\ inv[i].pc = "restore"
    /\ restore.pc = "running"
    /\ \A t \in SubRestores : restore.task[t] = "ended"
    /\ restore' = [restore EXCEPT !.pc = "done"]
    /\ inv' = [inv EXCEPT ![i] =
                  [@ EXCEPT !.pc = "onboard", !.ran = @ \cup {"restore"}]]
    /\ UNCHANGED <<marker, config, locks, syncLoops, coldBegun, r2>>
    /\ UNCHANGED <<orchVars, bundleVars, sync, patch, doctor>>

\* part_000:151 and 195: the 60 s are over.  timeout signals its process
\* group, the processes signalled end (a config copy under way may have
\* written the file already), timeout exits with 124 and the script goes
\* on after `|| echo`.
RestoreExpires(i) ==
    /\ inv[i].pc = "restore"
    /\ restore.pc = "running"
    /\ restore.clock = RESTORE_TIMEOUT
    /\ restore' = [restore EXCEPT
                      !.pc = "done", !.timedOut = TRUE,
                      !.task = [t \in SubRestores |->
                                  IF @[t] = "running" /\ t \in TermReaches
                                  THEN "killed" ELSE @[t]]]
    /\ \E partial \in BOOLEAN :
          config' = (config \/ (partial /\ restore.task["config"] = "running"))
    /\ inv' = [inv EXCEPT ![i] =
                  [@ EXCEPT !.pc = "onboard", !.ran = @ \cup {"restore"}]]
    /\ UNCHANGED <<marker, locks, syncLoops, coldBegun, r2>>
    /\ UNCHANGED <<orchVars, bundleVars, sync, patch, doctor>>

\* One invocation in a fresh container, its restore followed command by
\* command, and the script after it.
RestoreStep(i) ==
    \/ RestoreBegin(i)
    \/ RestoreNone(i)
    \/ RestoreJoined(i)
    \/ RestoreExpires(i)

AfterRestore(i) ==
    \/ Onboard(i)
    \/ Patch(i)
    \/ StartSync(i)
    \/ Doctor(i)
    \/ Mark(i)
    \/ SupClean(i)
    \/ SupLaunch(i)
    \/ SupWake(i)

(***************************************************************************)
(* The background sync loop (part_000:383-423), followed command by        *)
(* command.  Time is counted in cycles; a file is newer than the marker    *)
(* when it was written after the marker was last touched.                  *)
(***************************************************************************)
ConfigTree == {"openclaw.json"}
WorkspaceTree == {"notes.md", "node_modules/pkg.js", ".git/HEAD"}
SyncedFiles == ConfigTree \cup WorkspaceTree

\* part_000:395-399: the files the two find commands print, among those
\* newer than the marker
Found(newer) ==
    (newer \cap ConfigTree)
        \cup {f \in newer \cap WorkspaceTree :
                 f \notin {"node_modules/pkg.js", ".git/HEAD"}}

\* part_000:404: [ "$COUNT" -gt 0 ]
UploadsAlways(count) == TRUE

Uploads(count) == count > 0

\* part_000:383-423: the loop is started and followed from here.
SyncLoopStart(i) == StartsSync(i, TRUE)

\* Another process (the gateway, an agent) writes a file of the trees.
FileWritten(f) ==
    /\ sync # NotFollowed
    /\ sync.writes < MaxWrites
    /\ sync' = [sync EXCEPT !.newer = @ \cup {f}, !.writes = @ + 1,
                            !.pending = @ \cup {f}]
    /\ UNCHANGED <<entryVars, orchVars, bundleVars, restore, patch, doctor>>

\* One command of the loop has run: the loop record is next.
SyncRuns(next) ==
    /\ sync' = next
    /\ UNCHANGED <<entryVars, orchVars, bundleVars, restore, patch, doctor>>

\* part_000:391-404: sleep 30, the two finds into CHANGED, the count and
\* its test.  With no changed file the cycle is over.
SyncFind ==
    /\ sync # NotFollowed
    /\ sync.pc = "sleep"
    /\ sync.cycle < MaxCycles
    /\ LET changed == Found(sync.newer)
           r == [sync EXCEPT !.cycle = @ + 1, !.changed = changed,
                             !.cmds = <<>>]
       IN SyncRuns(IF Uploads(Cardinality(changed))
                   THEN [r EXCEPT !.pc = "config"]
                   ELSE r)

\* part_000:405-415: the files an rclone sync of a tree sends as they are
\* when it reads them, whether or not the finds listed them.
Uploaded(tree) ==
    IF tree = "config" THEN ConfigTree
    ELSE IF tree = "workspace" THEN Found(WorkspaceTree)
    ELSE {}

\* part_000:406-415: an rclone sync of the cycle ends with success or not;
\* the workspace and the skills are synced only if their directory exists,
\* as the workspace does once a file of it was written.  pending holds the files written since an upload last sent them.
SyncUpload(tree, next) ==
    /\ sync # NotFollowed
    /\ sync.pc = tree
    /\ \E exists, ok \in BOOLEAN :
          /\ tree = "config" => exists
          /\ (tree = "workspace"
                /\ (sync.changed \cup sync.newer) \cap WorkspaceTree # {})
                => exists
          /\ SyncRuns([sync EXCEPT
                 !.pc = next,
                 !.cmds = IF exists
                          THEN Append(@, [cmd |-> tree, ok |-> ok])
                          ELSE @,
                 !.pending = IF exists /\ ok THEN @ \ Uploaded(tree)
                             ELSE @])

\* part_000:416-419: date > LAST_SYNC_FILE and touch MARKER, run after the
\* rclone commands whose exit codes are not read; the files written up to
\* now are no longer newer than the marker.
SyncStamp ==
    /\ sync # NotFollowed
    /\ sync.pc = "stamp"
    /\ SyncRuns([sync EXCEPT !.pc = "sleep", !.marker = sync.cycle,
                             !.lastSync = sync.cycle, !.newer = {}])

SyncLoopStep ==
    \/ SyncFind
    \/ SyncUpload("config", "workspace")
    \/ SyncUpload("workspace", "skills")
    \/ SyncUpload("skills", "stamp")
    \/ SyncStamp

\* The lookup of findExistingMoltbotProcess over the tables of up to
\* MaxListed processes whose commands hold each gateway substring alone,
\* each CLI substring next to a gateway substring, a CLI substring alone,
\* or none of them.
LegacyStartCommand == <<"/usr/local/bin/", "start-moltbot.sh">>

ListedCommands ==
    { StartCommand,
      GatewayCommand,
      LegacyStartCommand,
      <<"clawdbot", "gateway">>,
      CliCommand,
      <<"bash", "-c", "openclaw", "gateway", ";", "openclaw", "devices">>,
      <<"bash", "-c", "openclaw", "--version", "&&">> \o StartCommand,
      <<"bash", "-c", "openclaw", "onboard", "&&", "openclaw", "gateway">>,
      <<"clawdbot", "gateway", ";", "clawdbot", "devices", "list">>,
      <<"clawdbot", "--version", ";">> \o LegacyStartCommand,
      <<"rclone", "sync">> }

ListedStatuses == {"starting", "running", "completed"}

RECURSIVE Tables(_)
Tables(n) ==
    IF n = 0 THEN {<<>>}
    ELSE LET shorter == Tables(n - 1) IN
         shorter \cup
             { Append(t, Proc(Len(t) + 1, cmd, st)) :
                   t \in {u \in shorter : Len(u) = n - 1},
                   cmd \in ListedCommands, st \in ListedStatuses }

InitMatch ==
    /\ procs \in Tables(MaxListed)
    /\ cachedProcess = NoProc
    /\ cacheStamped = FALSE
    /\ sinceStamp = PROCESS_CACHE_TTL_MS
    /\ changes = 0
    /\ call = [c \in CallerIds |-> IF c = 1 THEN IdleCall ELSE OffCall]
    /\ EntryIdle
    /\ r2 = FALSE
    /\ BundleIdle
    /\ StepsIdle

NextMatch ==
    \/ CallOnce(1)
    \/ RcloneDone(1)
    \/ ListDone(1)

SpecMatch == InitMatch /\ [][NextMatch]_vars

\* A fresh container: no orchestrator call is modelled, the entrypoint is
\* invoked from outside at any time.
OrchIdle ==
    /\ procs = <<>>
    /\ cachedProcess = NoProc
    /\ cacheStamped = FALSE
    /\ sinceStamp = PROCESS_CACHE_TTL_MS
    /\ changes = 0
    /\ call = [c \in CallerIds |-> OffCall]

InitEntry ==
    /\ OrchIdle
    /\ EntryIdle
    /\ r2 \in BOOLEAN
    /\ BundleIdle
    /\ StepsIdle

EntryStep(i) ==
    \/ Invoke(i)
    \/ Gate(i)
    \/ Restore(i)
    \/ Onboard(i)
    \/ Patch(i)
    \/ StartSync(i)
    \/ Doctor(i)
    \/ Mark(i)
    \/ SupClean(i)
    \/ SupLaunch(i)
    \/ GatewayExit(i)
    \/ SupWake(i)

NextEntry ==
    \/ \E i \in InvIds : EntryStep(i)
    \/ ConfigLost

SpecEntry == InitEntry /\ [][NextEntry]_vars

\* What an invocation does by itself once it was started: every command
\* of the script ends and the next one runs.  The exit of the gateway is
\* not among them: a gateway may stay up for ever.
ScriptStep(i) ==
    \/ Gate(i)
    \/ Restore(i)
    \/ Onboard(i)
    \/ Patch(i)
    \/ StartSync(i)
    \/ Doctor(i)
    \/ Mark(i)
    \/ SupClean(i)
    \/ SupLaunch(i)
    \/ SupWake(i)

SpecEntryFair == SpecEntry /\ \A i \in InvIds : WF_vars(ScriptStep(i))

\* One invocation alone in a fresh container, its supervisor followed
\* through a long run of gateway exits.
NextSupervisor ==
    \/ Invoke(1)
    \/ ScriptStep(1)
    \/ GatewayExitLong(1)
    \/ ConfigLost

SpecSupervisor == InitEntry /\ [][NextSupervisor]_vars

SpecSupervisorFair == SpecSupervisor /\ WF_vars(ScriptStep(1))

\* The script needs R2_ACCESS_KEY_ID, R2_SECRET_ACCESS_KEY and
\* CF_ACCOUNT_ID (part_000:116-118) from the record it is started with.
R2InBundle(m) ==
    {"R2_ACCESS_KEY_ID", "R2_SECRET_ACCESS_KEY", "CF_ACCOUNT_ID"}
        \subseteq DOMAIN m

\* process.ts:173: const envVars = buildEnvVars(env)
BuildEnv ==
    /\ envVars = NotBuilt
    /\ envVars' = buildEnvVars(workerEnv)
    /\ UNCHANGED workerEnv
    /\ UNCHANGED orchVars
    /\ UNCHANGED entryVars
    /\ UNCHANGED stepVars

\* process.ts:181 and part_000:9-34: startProcess is given the record and
\* the script starts in it; the container's own environment may hold the
\* token as well.  The record and env are locals of the call that ends.
Spawn ==
    /\ envVars \notin {NotBuilt, HandedOver}
    /\ \E ambient \in BOOLEAN :
          Begins(1, ambient \/ "OPENCLAW_GATEWAY_TOKEN" \in DOMAIN envVars)
    /\ r2' = R2InBundle(envVars)
    /\ workerEnv' = NoEnv
    /\ envVars' = HandedOver
    /\ UNCHANGED stepVars

\* One call of the orchestrator in a fresh container that builds the
\* bundle for any environment and starts the script with it; the script
\* from there, and a later invocation of it.
InitEnv ==
    /\ OrchIdle
    /\ EntryIdle
    /\ r2 = FALSE
    /\ workerEnv \in WorkerEnvs
    /\ envVars = NotBuilt
    /\ StepsIdle

NextEnv ==
    \/ BuildEnv
    \/ Spawn
    \/ Invoke(2)
    \/ \E i \in InvIds : ScriptStep(i) \/ GatewayExit(i)
    \/ ConfigLost

SpecEnv == InitEnv /\ [][NextEnv]_vars

(***************************************************************************)
(* The config patch (part_000:235-359), computed as node computes it.  A   *)
(* JavaScript value is a record: k its kind, v the tokens of a string or   *)
(* the literal of a number or boolean, e the properties of an object or    *)
(* array in insertion order, each a pair of a key and a value.  A key is a *)
(* sequence of tokens, as every text of the model is.                      *)
(***************************************************************************)
Val(k, v, e) == [k |-> k, v |-> v, e |-> e]
NoValue == Val("undef", <<>>, <<>>)
Null == Val("null", <<>>, <<>>)
Bool(b) == Val("bool", <<b>>, <<>>)
Num(lit) == Val("num", <<lit>>, <<>>)
Str(toks) == Val("str", toks, <<>>)
Obj(props) == Val("obj", <<>>, props)
IndexKeys == <<"0", "1", "2", "3", "4", "5", "6", "7">>
Arr(items) ==
    Val("arr", <<>>, [n \in 1..Len(items) |-> << <<IndexKeys[n]>>, items[n] >>])
EmptyObj == Obj(<<>>)

\* The completion of a statement that threw: nothing after it runs.
Thrown == Val("thrown", <<>>, <<>>)

IsIndex(key) ==
    Len(key) = 1 /\ \E n \in 1..Len(IndexKeys) : IndexKeys[n] = key[1]

Holds(x) == x.k \in {"obj", "arr"}

Has(x, key) == Holds(x) /\ \E n \in 1..Len(x.e) : x.e[n][1] = key

\* x[key] of a value that is neither undefined nor null: a primitive has
\* none of the keys the patch reads.
Get(x, key) ==
    IF Has(x, key)
    THEN x.e[CHOOSE n \in 1..Len(x.e) : x.e[n][1] = key][2]
    ELSE NoValue

\* x[key] = val on an object or array: an existing key keeps its place, a
\* new one goes last.
PutProp(x, key, val) ==
    IF Has(x, key)
    THEN [x EXCEPT !.e = [n \in 1..Len(x.e) |->
              IF x.e[n][1] = key THEN <<key, val>> ELSE x.e[n]]]
    ELSE [x EXCEPT !.e = Append(x.e, <<key, val>>)]

IsTruthy(x) ==
    \/ Holds(x)
    \/ x.k = "bool" /\ x.v = <<"true">>
    \/ x.k = "num" /\ x.v \notin {<<"0">>, <<"-0">>}
    \/ x.k = "str" /\ x.v # <<>>

\* x.a.b...: a read of a property of undefined or null throws.
RECURSIVE GetPath(_, _)
GetPath(x, path) ==
    IF path = <<>> THEN x
    ELSE IF x.k \in {"undef", "null", "thrown"} THEN Thrown
    ELSE GetPath(Get(x, Head(path)), Tail(path))

\* x.a.b... = val: throws on undefined or null along the way, is ignored
\* on a primitive (the script is not in strict mode), and otherwise changes
\* the object that x.a.b... refers to, which x holds.
RECURSIVE SetPath(_, _, _)
SetPath(x, path, val) ==
    IF x.k \in {"undef", "null", "thrown"} THEN Thrown
    ELSE IF Len(path) = 1
         THEN IF Holds(x) THEN PutProp(x, Head(path), val) ELSE x
         ELSE LET child == Get(x, Head(path))
                  set == SetPath(child, Tail(path), val)
              IN  IF set = Thrown THEN Thrown
                  ELSE IF Holds(x) /\ Holds(child)
                       THEN PutProp(x, Head(path), set)
                       ELSE x

Assign(cfg, path, val) ==
    IF cfg = Thrown \/ val = Thrown THEN Thrown ELSE SetPath(cfg, path, val)

\* x.a.b = x.a.b || {}
OrEmpty(cfg, path) ==
    LET cur == GetPath(cfg, path)
    IN  Assign(cfg, path,
               IF cur = Thrown THEN Thrown
               ELSE IF IsTruthy(cur) THEN cur ELSE EmptyObj)

\* JSON.parse of a document that parses: a number literal beyond the range
\* of a double is Infinity.
RECURSIVE Parsed(_)
Parsed(doc) ==
    IF doc.k = "num" /\ doc.v = <<"1e400">> THEN Num("Infinity")
    ELSE [doc EXCEPT !.e = [n \in 1..Len(doc.e) |->
                               <<doc.e[n][1], Parsed(doc.e[n][2])>>]]

\* JSON.stringify: of an array only the indexed items are written, a
\* property whose value is undefined is left out, Infinity is written
\* null and -0 is written 0.
RECURSIVE Stringified(_)
Stringified(x) ==
    IF x.k = "num" /\ x.v = <<"Infinity">> THEN Null
    ELSE IF x.k = "num" /\ x.v = <<"-0">> THEN Num("0")
    ELSE IF x.k = "undef" THEN Null
    ELSE LET kept == SelectSeq(x.e, LAMBDA p :
                         /\ x.k = "arr" => IsIndex(p[1])
                         /\ x.k = "obj" => p[2].k # "undef")
         IN  [x EXCEPT !.e = [n \in 1..Len(kept) |->
                                 <<kept[n][1], Stringified(kept[n][2])>>]]

\* The config file: absent, a text that does not parse, or a JSON document.
Absent == Val("absent", <<>>, <<>>)
Unparseable == Val("unparseable", <<>>, <<>>)

\* part_000:242-246
Read(file) ==
    IF file.k \in {"absent", "unparseable"} THEN EmptyObj ELSE Parsed(file)

K(name) == <<name>>
P1(a) == <<K(a)>>
P2(a, b) == <<K(a), K(b)>>
P3(a, b, c) == <<K(a), K(b), K(c)>>

\* The first position of tok in toks, 0 when there is none.
IndexOf(toks, tok) ==
    IF \E n \in 1..Len(toks) : toks[n] = tok
    THEN CHOOSE n \in 1..Len(toks) :
             toks[n] = tok /\ \A m \in 1..(n - 1) : toks[m] # tok
    ELSE 0

\* String.prototype.split(',')
RECURSIVE Split(_)
Split(toks) ==
    LET at == IndexOf(toks, ",")
    IN  IF at = 0 THEN <<Str(toks)>>
        ELSE <<Str(SubSeq(toks, 1, at - 1))>>
                 \o Split(SubSeq(toks, at + 1, Len(toks)))

PushedProxies(cfg) ==
    LET old == GetPath(cfg, P2("gateway", "trustedProxies"))
    IN  IF old = Thrown \/ old.k # "arr" THEN Arr(<<Str(<<"10.1.0.0">>)>>)
        ELSE PutProp(old, K(IndexKeys[Len(old.e) + 1]), Str(<<"10.1.0.0">>))

\* part_000:258: ['10.1.0.0']
TrustedProxies(cfg) == Arr(<<Str(<<"10.1.0.0">>)>>)

\* part_000:248-273
PatchGateway(cfg, env) ==
    LET g == OrEmpty(cfg, P1("gateway"))
        c == OrEmpty(g, P1("channels"))
        a == OrEmpty(c, P1("agents"))
        d == OrEmpty(a, P2("agents", "defaults"))
        w == Assign(d, P3("agents", "defaults", "workspace"),
                    Str(<<"/root/clawd">>))
        p == Assign(w, P2("gateway", "port"), Num("18789"))
        m == Assign(p, P2("gateway", "mode"), Str(<<"local">>))
        t == Assign(m, P2("gateway", "trustedProxies"), TrustedProxies(m))
        auth == Assign(t, P2("gateway", "auth"),
                    Obj(<< <<K("mode"), Str(<<"token">>)>>,
                           <<K("token"),
                             Str(IF env.SANDBOX_GATEWAY_TOKEN # <<>>
                                 THEN env.SANDBOX_GATEWAY_TOKEN
                                 ELSE <<"sandbox-internal-fallback">>)>> >>))
        ui == OrEmpty(auth, P2("gateway", "controlUi"))
        ins == Assign(ui, P3("gateway", "controlUi", "allowInsecureAuth"),
                      Bool("true"))
    IN  Assign(ins, P3("gateway", "controlUi",
                       "dangerouslyDisableDeviceAuth"), Bool("true"))

\* part_000:276-294
GwProvider(raw) == SubSeq(raw, 1, IndexOf(raw, "/") - 1)
ModelId(raw) == SubSeq(raw, IndexOf(raw, "/") + 1, Len(raw))

BaseUrl(env) ==
    LET gwProvider == GwProvider(env.CF_AI_GATEWAY_MODEL)
    IN  IF env.CF_AI_GATEWAY_ACCOUNT_ID # <<>>
             /\ env.CF_AI_GATEWAY_GATEWAY_ID # <<>>
        THEN <<"https://gateway.ai.cloudflare.com/v1/">>
                 \o env.CF_AI_GATEWAY_ACCOUNT_ID \o <<"/">>
                 \o env.CF_AI_GATEWAY_GATEWAY_ID \o <<"/">> \o gwProvider
                 \o (IF gwProvider = <<"workers-ai">> THEN <<"/v1">>
                     ELSE <<>>)
        ELSE IF gwProvider = <<"workers-ai">> /\ env.CF_ACCOUNT_ID # <<>>
        THEN <<"https://api.cloudflare.com/client/v4/accounts/">>
                 \o env.CF_ACCOUNT_ID \o <<"/ai/v1">>
        ELSE <<>>

\* part_000:275-313
PatchModel(cfg, env) ==
    LET raw == env.CF_AI_GATEWAY_MODEL
        gwProvider == GwProvider(raw)
        modelId == ModelId(raw)
        apiKey == env.CLOUDFLARE_AI_GATEWAY_API_KEY
        providerName == <<"cf-ai-gw-">> \o gwProvider
        ms == OrEmpty(cfg, P1("models"))
        ps == OrEmpty(ms, P2("models", "providers"))
        pr == Assign(ps, <<K("models"), K("providers"), providerName>>,
                Obj(<< <<K("baseUrl"), Str(BaseUrl(env))>>,
                       <<K("apiKey"), Str(apiKey)>>,
                       <<K("api"),
                         Str(IF gwProvider = <<"anthropic">>
                             THEN <<"anthropic-messages">>
                             ELSE <<"openai-completions">>)>>,
                       <<K("models"),
                         Arr(<<Obj(<< <<K("id"), Str(modelId)>>,
                                      <<K("name"), Str(modelId)>>,
                                      <<K("contextWindow"), Num("131072")>>,
                                      <<K("maxTokens"), Num("8192")>> >>)>>)>>
                    >>))
        a == OrEmpty(pr, P1("agents"))
        d == OrEmpty(a, P2("agents", "defaults"))
    IN  IF raw = <<>> \/ BaseUrl(env) = <<>> \/ apiKey = <<>> THEN cfg
        ELSE Assign(d, P3("agents", "defaults", "model"),
                 Obj(<< <<K("primary"),
                          Str(providerName \o <<"/">> \o modelId)>> >>))

\* part_000:316-333
PatchTelegram(cfg, env) ==
    LET dmPolicy == IF env.TELEGRAM_DM_POLICY # <<>>
                    THEN env.TELEGRAM_DM_POLICY ELSE <<"pairing">>
        split == Split(env.TELEGRAM_DM_ALLOW_FROM)
        ids == IF dmPolicy = <<"open">>
                    /\ \A n \in 1..Len(split) : split[n] # Str(<<"*">>)
               THEN Append(split, Str(<<"*">>)) ELSE split
        base == << <<K("botToken"), Str(env.TELEGRAM_BOT_TOKEN)>>,
                   <<K("enabled"), Bool("true")>>,
                   <<K("dmPolicy"), Str(dmPolicy)>> >>
        telegram ==
            IF env.TELEGRAM_DM_ALLOW_FROM # <<>>
            THEN Obj(Append(base, <<K("allowFrom"), Arr(ids)>>))
            ELSE IF dmPolicy = <<"open">>
            THEN Obj(Append(base, <<K("allowFrom"), Arr(<<Str(<<"*">>)>>)>>))
            ELSE Obj(base)
    IN  IF env.TELEGRAM_BOT_TOKEN = <<>> THEN cfg
        ELSE Assign(cfg, P2("channels", "telegram"), telegram)

\* part_000:336-347
PatchDiscord(cfg, env) ==
    LET dmPolicy == IF env.DISCORD_DM_POLICY # <<>>
                    THEN env.DISCORD_DM_POLICY ELSE <<"pairing">>
        policy == << <<K("policy"), Str(dmPolicy)>> >>
        dm == IF dmPolicy = <<"open">>
              THEN Obj(Append(policy,
                              <<K("allowFrom"), Arr(<<Str(<<"*">>)>>)>>))
              ELSE Obj(policy)
    IN  IF env.DISCORD_BOT_TOKEN = <<>> THEN cfg
        ELSE Assign(cfg, P2("channels", "discord"),
                 Obj(<< <<K("token"), Str(env.DISCORD_BOT_TOKEN)>>,
                        <<K("enabled"), Bool("true")>>,
                        <<K("dm"), dm>> >>))

\* part_000:350-356
PatchSlack(cfg, env) ==
    IF env.SLACK_BOT_TOKEN = <<>> \/ env.SLACK_APP_TOKEN = <<>> THEN cfg
    ELSE Assign(cfg, P2("channels", "slack"),
             Obj(<< <<K("botToken"), Str(env.SLACK_BOT_TOKEN)>>,
                    <<K("appToken"), Str(env.SLACK_APP_TOKEN)>>,
                    <<K("enabled"), Bool("true")>> >>))

\* part_000:235-359: the file after one run of the patch.  A run that
\* throws ends node before writeFileSync and leaves the file as it was.
Patched(file, env) ==
    LET written == PatchSlack(PatchDiscord(PatchTelegram(
                      PatchModel(PatchGateway(Read(file), env), env),
                      env), env), env)
    IN  IF written = Thrown THEN file ELSE Stringified(written)

\* The environments of the patch: each variable it reads, empty when unset.
PatchModels ==
    { [CF_AI_GATEWAY_MODEL |-> <<>>, CF_AI_GATEWAY_ACCOUNT_ID |-> <<>>,
       CF_AI_GATEWAY_GATEWAY_ID |-> <<>>,
       CLOUDFLARE_AI_GATEWAY_API_KEY |-> <<>>, CF_ACCOUNT_ID |-> <<>>],
      [CF_AI_GATEWAY_MODEL |-> <<"anthropic", "/", "claude">>,
       CF_AI_GATEWAY_ACCOUNT_ID |-> <<"acct">>,
       CF_AI_GATEWAY_GATEWAY_ID |-> <<"gw">>,
       CLOUDFLARE_AI_GATEWAY_API_KEY |-> <<"key">>, CF_ACCOUNT_ID |-> <<>>],
      [CF_AI_GATEWAY_MODEL |-> <<"workers-ai", "/", "@cf", "/", "llama">>,
       CF_AI_GATEWAY_ACCOUNT_ID |-> <<"acct">>,
       CF_AI_GATEWAY_GATEWAY_ID |-> <<"gw">>,
       CLOUDFLARE_AI_GATEWAY_API_KEY |-> <<"key">>, CF_ACCOUNT_ID |-> <<>>],
      [CF_AI_GATEWAY_MODEL |-> <<"workers-ai", "/", "@cf", "/", "llama">>,
       CF_AI_GATEWAY_ACCOUNT_ID |-> <<>>, CF_AI_GATEWAY_GATEWAY_ID |-> <<>>,
       CLOUDFLARE_AI_GATEWAY_API_KEY |-> <<"key">>,
       CF_ACCOUNT_ID |-> <<"cf">>],
      [CF_AI_GATEWAY_MODEL |-> <<"noslash">>,
       CF_AI_GATEWAY_ACCOUNT_ID |-> <<"acct">>,
       CF_AI_GATEWAY_GATEWAY_ID |-> <<"gw">>,
       CLOUDFLARE_AI_GATEWAY_API_KEY |-> <<"key">>, CF_ACCOUNT_ID |-> <<>>],
      [CF_AI_GATEWAY_MODEL |-> <<"anthropic", "/", "claude">>,
       CF_AI_GATEWAY_ACCOUNT_ID |-> <<"acct">>,
       CF_AI_GATEWAY_GATEWAY_ID |-> <<"gw">>,
       CLOUDFLARE_AI_GATEWAY_API_KEY |-> <<>>, CF_ACCOUNT_ID |-> <<>>] }

PatchTelegrams ==
    { [TELEGRAM_BOT_TOKEN |-> <<>>, TELEGRAM_DM_POLICY |-> <<>>,
       TELEGRAM_DM_ALLOW_FROM |-> <<>>],
      [TELEGRAM_BOT_TOKEN |-> <<"tg">>, TELEGRAM_DM_POLICY |-> <<"open">>,
       TELEGRAM_DM_ALLOW_FROM |-> <<>>],
      [TELEGRAM_BOT_TOKEN |-> <<"tg">>, TELEGRAM_DM_POLICY |-> <<"open">>,
       TELEGRAM_DM_ALLOW_FROM |-> <<"1", ",", "2">>],
      [TELEGRAM_BOT_TOKEN |-> <<"tg">>, TELEGRAM_DM_POLICY |-> <<>>,
       TELEGRAM_DM_ALLOW_FROM |-> <<"*">>] }

PatchChats ==
    { [SANDBOX_GATEWAY_TOKEN |-> <<>>, DISCORD_BOT_TOKEN |-> <<>>,
       DISCORD_DM_POLICY |-> <<>>, SLACK_BOT_TOKEN |-> <<"sb">>,
       SLACK_APP_TOKEN |-> <<>>],
      [SANDBOX_GATEWAY_TOKEN |-> <<"tok">>, DISCORD_BOT_TOKEN |-> <<"ds">>,
       DISCORD_DM_POLICY |-> <<"open">>, SLACK_BOT_TOKEN |-> <<"sb">>,
       SLACK_APP_TOKEN |-> <<"sa">>] }

PatchEnvs ==
    { [SANDBOX_GATEWAY_TOKEN |-> c.SANDBOX_GATEWAY_TOKEN,
       CF_AI_GATEWAY_MODEL |-> m.CF_AI_GATEWAY_MODEL,
       CF_AI_GATEWAY_ACCOUNT_ID |-> m.CF_AI_GATEWAY_ACCOUNT_ID,
       CF_AI_GATEWAY_GATEWAY_ID |-> m.CF_AI_GATEWAY_GATEWAY_ID,
       CLOUDFLARE_AI_GATEWAY_API_KEY |-> m.CLOUDFLARE_AI_GATEWAY_API_KEY,
       CF_ACCOUNT_ID |-> m.CF_ACCOUNT_ID,
       TELEGRAM_BOT_TOKEN |-> t.TELEGRAM_BOT_TOKEN,
       TELEGRAM_DM_POLICY |-> t.TELEGRAM_DM_POLICY,
       TELEGRAM_DM_ALLOW_FROM |-> t.TELEGRAM_DM_ALLOW_FROM,
       DISCORD_BOT_TOKEN |-> c.DISCORD_BOT_TOKEN,
       DISCORD_DM_POLICY |-> c.DISCORD_DM_POLICY,
       SLACK_BOT_TOKEN |-> c.SLACK_BOT_TOKEN,
       SLACK_APP_TOKEN |-> c.SLACK_APP_TOKEN] :
        m \in PatchModels, t \in PatchTelegrams, c \in PatchChats }

\* The documents the patch is given: a file that is absent or does not
\* parse, documents that are not objects, and objects whose sections are
\* missing, null, primitives, arrays or objects written by an earlier
\* version.
GatewaySections ==
    { NoValue, Null, Num("5"), Arr(<<>>),
      Obj(<< <<K("port"), Num("1")>>,
             <<K("trustedProxies"),
               Arr(<<Str(<<"10.9.9.9">>), Str(<<"10.1.0.0">>)>>)>>,
             <<K("controlUi"), Num("5")>> >>),
      Obj(<< <<K("controlUi"),
               Obj(<< <<K("allowInsecureAuth"), Bool("false")>> >>)>>,
             <<K("auth"), Obj(<< <<K("mode"), Str(<<"none">>)>> >>)>> >>) }

ChannelsSections ==
    { NoValue, Str(<<"x">>),
      Obj(<< <<K("telegram"),
               Obj(<< <<K("botToken"), Str(<<"old">>)>>,
                      <<K("allowFrom"), Arr(<<Str(<<"9">>)>>)>> >>)>>,
             <<K("slack"), Num("-0")>> >>) }

AgentsSections ==
    { NoValue, Obj(<< <<K("defaults"), Num("5")>> >>),
      Obj(<< <<K("defaults"),
               Obj(<< <<K("workspace"), Str(<<"/old">>)>>,
                      <<K("model"),
                        Obj(<< <<K("primary"), Str(<<"old">>)>> >>)>> >>)>>
          >>) }

ModelsSections ==
    { NoValue, Str(<<"x">>),
      Obj(<< <<K("providers"), Num("5")>> >>),
      Obj(<< <<K("providers"),
               Obj(<< << <<"cf-ai-gw-", "anthropic">>,
                         Obj(<< <<K("baseUrl"), Str(<<"old">>)>> >>) >> >>)>>
          >>) }

MetaSections == { NoValue, Num("1e400") }

Present(props) == SelectSeq(props, LAMBDA p : p[2] # NoValue)

Documents ==
    { Absent, Unparseable, Null, Num("5"), Num("1e400"), Str(<<"x">>),
      Arr(<<Num("1")>>) }
        \cup { Obj(Present(<< <<K("meta"), meta>>, <<K("models"), models>>,
                              <<K("gateway"), gateway>>,
                              <<K("agents"), agents>>,
                              <<K("channels"), channels>> >>)) :
                  meta \in MetaSections, models \in ModelsSections,
                  gateway \in GatewaySections, agents \in AgentsSections,
                  channels \in ChannelsSections }

InitPatch ==
    /\ OrchIdle
    /\ EntryIdle
    /\ r2 = FALSE
    /\ BundleIdle
    /\ restore = NotFollowed
    /\ sync = NotFollowed
    /\ doctor = NotFollowed
    /\ \E file \in Documents, env \in PatchEnvs :
           patch = [pc |-> "on", input |-> file, file |-> file,
                    env |-> env, runs |-> 0]

\* part_000:235: one run of node over the heredoc.
PatchRun ==
    /\ patch # NotFollowed
    /\ patch.runs < MaxPatchRuns
    /\ patch' = [patch EXCEPT !.file = Patched(patch.file, patch.env),
                              !.runs = @ + 1]
    /\ UNCHANGED <<entryVars, orchVars, bundleVars, restore, sync, doctor>>

NextPatch == PatchRun

SpecPatch == InitPatch /\ [][NextPatch]_vars

(***************************************************************************)
(* The doctor check (part_000:425-436), followed command by command.  A    *)
(* file is absent or holds a text; the snapshot file may be left from an   *)
(* earlier run or come back through the restore, which copies the whole    *)
(* config directory.                                                       *)
(***************************************************************************)
NoFile == [exists |-> FALSE, text |-> <<>>]
File(text) == [exists |-> TRUE, text |-> text]

ConfigTexts ==
    { <<"{", "}">>,
      <<"{", "apiKey", "${ANTHROPIC_API_KEY}", "}">>,
      <<"{", "apiKey", "sk-ant-", "api03", "}">>,
      <<"{", "apiKey", "OPENCLAW_REDACTED", "}">> }

ConfigFiles == {NoFile} \cup {File(text) : text \in ConfigTexts}

\* part_000:433: the two greps of the check
Exposes(file) ==
    /\ file.exists
    /\ \/ Includes(file.text, <<"sk-ant-">>)
       \/ Includes(file.text, <<"OPENCLAW_REDACTED">>)

InitDoctor ==
    /\ OrchIdle
    /\ EntryIdle
    /\ r2 \in BOOLEAN
    /\ BundleIdle
    /\ restore = NotFollowed
    /\ sync = NotFollowed
    /\ patch = NotFollowed
    /\ \E file \in ConfigFiles, left \in ConfigFiles :
           /\ (~r2 /\ ~file.exists) => left = NoFile
           /\ doctor = [pc |-> "snapshot", config |-> file,
                        backup |-> left, before |-> file]

DoctorRuns(next) ==
    /\ doctor' = next
    /\ UNCHANGED <<entryVars, orchVars, bundleVars, restore, sync, patch>>

\* part_000:429: cp "$CONFIG_FILE" "$CONFIG_FILE.pre-doctor" 2>/dev/null
\* || true: without a config file cp fails and the snapshot file is left
\* as it was.
DoctorSnapshot ==
    /\ doctor # NotFollowed
    /\ doctor.pc = "snapshot"
    /\ DoctorRuns([doctor EXCEPT
           !.pc = "fix",
           !.before = doctor.config,
           !.backup = IF doctor.config.exists THEN doctor.config ELSE @])

\* part_000:430: timeout 30 openclaw doctor --fix --non-interactive, which
\* leaves the config file as it was, or writes one.
DoctorFix ==
    /\ doctor # NotFollowed
    /\ doctor.pc = "fix"
    /\ \E after \in {doctor.config} \cup {File(t) : t \in ConfigTexts} :
           DoctorRuns([doctor EXCEPT !.pc = "check", !.config = after])

\* part_000:433-436: the greps and the copy back, which fails without a
\* snapshot file.
DoctorCheck ==
    /\ doctor # NotFollowed
    /\ doctor.pc = "check"
    /\ DoctorRuns([doctor EXCEPT
           !.pc = "done",
           !.config = IF Exposes(doctor.config) /\ doctor.backup.exists
                      THEN doctor.backup ELSE @])

NextDoctor ==
    \/ DoctorSnapshot
    \/ DoctorFix
    \/ DoctorCheck

SpecDoctor == InitDoctor /\ [][NextDoctor]_vars

\* The cold path of one invocation up to the start of the sync loop, and
\* the loop from there next to the processes that write the trees.
NextSync ==
    \/ Invoke(1)
    \/ Gate(1)
    \/ Restore(1)
    \/ Onboard(1)
    \/ Patch(1)
    \/ SyncLoopStart(1)
    \/ SyncLoopStep
    \/ \E f \in SyncedFiles : FileWritten(f)

SpecSync == InitEntry /\ [][NextSync]_vars

\* The cold path with its restore followed command by command.
NextRestore ==
    \/ Invoke(1)
    \/ Gate(1)
    \/ RestoreStep(1)
    \/ \E t \in SubRestores : SubRestoreEnds(t)
    \/ RestoreTick
    \/ AfterRestore(1)
    \/ GatewayExit(1)
    \/ ConfigLost

SpecRestore == InitEntry /\ [][NextRestore]_vars

\* The shell runs the script on, and time passes.
SpecRestoreFair ==
    /\ SpecRestore
    /\ WF_vars(Gate(1) \/ RestoreStep(1) \/ AfterRestore(1))
    /\ WF_vars(RestoreTick)

(***************************************************************************)
(* Vocabulary of the claims about the orchestrator                         *)
(***************************************************************************)
\* The host-reset signature, as the specification states it.
HostResetSignature(msg) ==
    Includes(msg, <<"Durable", "Object", "reset">>)
        \/ Includes(msg, <<"Network", "connection", "lost">>)

AttemptOver(c) == call[c].pc \in {"sleep", "thrown", "returned"}

Hist(c) == call[c].hist

\* Event i of the attempt is the call op settling with the given kind.
Is(c, i, op, kind) ==
    i \in 1..Len(Hist(c)) /\ Hist(c)[i].op = op /\ Hist(c)[i].kind = kind

Failed(c, i, op) ==
    i \in 1..Len(Hist(c)) /\ Hist(c)[i].op = op /\ Hist(c)[i].kind # "ok"

Did(c, op) == \E i \in 1..Len(Hist(c)) : Hist(c)[i].op = op

\* The call issued after event i: the next event's op, or the call still
\* awaited when event i is the last one.
NextOp(c, i) ==
    IF i < Len(Hist(c)) THEN Hist(c)[i + 1].op
    ELSE CASE call[c].pc = "kill" -> "kill"
           [] call[c].pc = "start" -> "start"
           [] call[c].pc = "list" -> "list"
           [] call[c].pc = "probe" -> "probe"
           [] call[c].pc = "waitPort" -> "waitPort"
           [] call[c].pc \in {"logsOk", "logsFail"} -> "getLogs"
           [] OTHER -> "none"

(***************************************************************************)
(* C1.  Orchestrator reuse: when the lookup yields a process whose status  *)
(* is starting or running and its liveness probe succeeds, the attempt     *)
(* returns that same process, and it has issued neither a kill nor a       *)
(* startProcess.                                                           *)
(***************************************************************************)
C1_Reuse ==
    \A c \in CallerIds :
        \A i \in 1..Len(Hist(c)) :
            Is(c, i, "probe", "ok") =>
                /\ call[c].pc = "returned"
                /\ call[c].result = call[c].existing
                /\ call[c].result.id = Hist(c)[i].pid
                /\ call[c].result.status \in LiveStatuses
                /\ ~Did(c, "kill")
                /\ ~Did(c, "start")
                /\ Hist(c)[Len(Hist(c))] = Event("return", Hist(c)[i].pid, "ok")

C1_Witness ==
    \E c \in CallerIds :
        /\ call[c].pc = "returned"
        /\ Did(c, "cacheHit")
        /\ \E i \in 1..Len(Hist(c)) : Is(c, i, "probe", "ok")

(***************************************************************************)
(* C2.  Orchestrator replacement.  As claimed: once an attempt is over in  *)
(* which the probe of a running process failed, the attempt has issued a   *)
(* kill of that process and after it a startProcess, and the error raised  *)
(* is not the probe's.                                                     *)
(***************************************************************************)
C2_AsClaimed ==
    \A c \in CallerIds :
        \A i \in 1..Len(Hist(c)) :
            (/\ AttemptOver(c)
             /\ Failed(c, i, "probe")
             /\ call[c].existing.status = "running")
            => /\ \E j \in (i + 1)..Len(Hist(c)) :
                    /\ Hist(c)[j].op = "kill"
                    /\ Hist(c)[j].pid = Hist(c)[i].pid
                    /\ \E k \in (j + 1)..Len(Hist(c)) : Hist(c)[k].op = "start"
               /\ call[c].err.origin # "probe"

(***************************************************************************)
(* C2, amended.  After a failed probe of a live process the next call is   *)
(* the kill of that process; unless the kill fails with a host-reset       *)
(* error, which ends the attempt with that error, the call after the kill  *)
(* is startProcess (never issued before the kill has settled), a process   *)
(* it starts is a new one, and the probe's error is never raised.          *)
(***************************************************************************)
C2_Replacement ==
    \A c \in CallerIds :
        \A i \in 1..Len(Hist(c)) :
            Failed(c, i, "probe") =>
                /\ NextOp(c, i) = "kill"
                /\ \A j \in 1..i : Hist(c)[j].op # "start"
                /\ i < Len(Hist(c)) =>
                    /\ Hist(c)[i + 1].pid = Hist(c)[i].pid
                    /\ IF Hist(c)[i + 1].kind = "reset"
                       THEN /\ NextOp(c, i + 1) \in {"sleep", "throw"}
                            /\ call[c].err.origin = "kill"
                       ELSE NextOp(c, i + 1) = "start"
                /\ \A k \in 1..Len(Hist(c)) :
                      Is(c, k, "start", "ok")
                          => /\ Hist(c)[k].pid # Hist(c)[i].pid
                             /\ call[c].process.id = Hist(c)[k].pid
                /\ call[c].err.origin # "probe"

C2_Witness ==
    \E c \in CallerIds :
        \E i \in 1..Len(Hist(c)) :
            /\ Failed(c, i, "probe")
            /\ call[c].existing.status = "running"
            /\ Is(c, i + 1, "kill", "ok")
            /\ Is(c, i + 2, "start", "ok")

(***************************************************************************)
(* C3.  Retry ceiling: at most 4 attempts; between consecutive attempts    *)
(* exactly one delay of 5 s; k host-reset failures (k <= 3) followed by a  *)
(* success return the handle after exactly k delays; the 4th consecutive   *)
(* host-reset failure is thrown, with no further delay or attempt.         *)
(***************************************************************************)
AllReset(fs) == \A i \in 1..Len(fs) : fs[i] = "reset"

C3_RetryCeiling ==
    \A c \in CallerIds :
        /\ call[c].attempt <= 3
        /\ call[c].slept = 5000 * call[c].attempt
        /\ Len(call[c].fails) =
              call[c].attempt + (IF call[c].pc \in {"sleep", "thrown"}
                                 THEN 1 ELSE 0)
        /\ (call[c].pc = "returned" /\ AllReset(call[c].fails))
              => /\ Len(call[c].fails) <= 3
                 /\ call[c].slept = 5000 * Len(call[c].fails)
                 /\ call[c].result # NoProc
        /\ (AllReset(call[c].fails) /\ Len(call[c].fails) \in 1..3)
              => call[c].pc # "thrown"
        /\ (AllReset(call[c].fails) /\ Len(call[c].fails) = 4)
              => /\ call[c].pc = "thrown"
                 /\ call[c].err.kind = "reset"
                 /\ call[c].slept = 5000 * 3

C3_Witness ==
    \E c \in CallerIds :
        /\ call[c].pc = "thrown"
        /\ call[c].fails = <<"reset", "reset", "reset", "reset">>

(***************************************************************************)
(* C4.  No retry on other failures.  As claimed: once listProcesses, kill, *)
(* startProcess, a port wait or getLogs has failed with an error that is   *)
(* not a host reset, the attempt issues no startProcess and no sleep, and  *)
(* it ends by throwing to the caller.                                      *)
(***************************************************************************)
RuntimeOps == {"list", "kill", "start", "waitPort", "getLogs"}

C4_AsClaimed ==
    \A c \in CallerIds :
        \A i \in 1..Len(Hist(c)) :
            (Hist(c)[i].op \in RuntimeOps /\ Hist(c)[i].kind = "other")
            => /\ \A j \in (i + 1)..Len(Hist(c)) :
                     Hist(c)[j].op \notin {"start", "sleep"}
               /\ call[c].pc # "start"
               /\ AttemptOver(c) => call[c].pc = "thrown"

(***************************************************************************)
(* C4, amended.  An attempt that ends with an error whose message does not *)
(* match the host-reset signature is not retried: the error is thrown to   *)
(* the caller at once, with no sleep and nothing issued after it.  That is *)
(* how a failure of startProcess that is not a host reset ends, and every  *)
(* error the caller gets from a failed startup wait.  A failure of         *)
(* listProcesses or of kill that is not a host reset does not end the      *)
(* attempt: the next call is startProcess.                                 *)
(***************************************************************************)
C4_NoRetryOnOther ==
    \A c \in CallerIds :
        /\ (AttemptOver(c) /\ call[c].pc # "returned"
                /\ ~HostResetSignature(call[c].err.msg))
              => /\ call[c].pc = "thrown"
                 /\ ~Did(c, "sleep")
                 /\ Hist(c)[Len(Hist(c))].op = "throw"
        /\ \A i \in 1..Len(Hist(c)) :
              /\ Hist(c)[i].op = "throw"
                    => i = Len(Hist(c)) /\ call[c].pc = "thrown"
              /\ Is(c, i, "start", "other")
                    => /\ NextOp(c, i) = "throw"
                       /\ call[c].err = [kind |-> "other", origin |-> "start",
                                         msg |-> <<"timeout">>]
              /\ (Hist(c)[i].op \in {"list", "kill"}
                     /\ Hist(c)[i].kind = "other")
                    => NextOp(c, i) = "start"

C4_Witness ==
    \E c \in CallerIds :
        /\ call[c].pc = "thrown"
        /\ call[c].attempt = 0
        /\ \E i \in 1..Len(Hist(c)) : Is(c, i, "list", "other")
        /\ \E i \in 1..Len(Hist(c)) : Is(c, i, "waitPort", "other")
        /\ call[c].err.origin = "waitPort"

(***************************************************************************)
(* C5.  Host-reset errors are always retried: a host-reset error raised by *)
(* listProcesses, the liveness probe, kill, startProcess, the startup port *)
(* wait or getLogs ends the attempt (a sleep while retries remain, a throw *)
(* otherwise); no kill and no startProcess follows it in that attempt.     *)
(***************************************************************************)
C5_ResetAlwaysRetried ==
    \A c \in CallerIds :
        \A i \in 1..Len(Hist(c)) :
            (Hist(c)[i].op \in RuntimeOps \cup {"probe"}
                /\ Hist(c)[i].kind = "reset")
            => /\ NextOp(c, i) =
                    (IF call[c].attempt < 3 THEN "sleep" ELSE "throw")
               /\ \A j \in (i + 1)..Len(Hist(c)) :
                     Hist(c)[j].op \notin {"kill", "start"}

(***************************************************************************)
(* C6.  Fatal diagnostics: when the port wait of a freshly started process *)
(* fails with an error that is not a host reset and getLogs then succeeds, *)
(* the error thrown to the caller is the descriptive error holding the     *)
(* captured stderr, not the error of the port wait.                        *)
(***************************************************************************)
C6_FatalDiagnostics ==
    \A c \in CallerIds :
        \A i \in 1..Len(Hist(c)) :
            (/\ call[c].pc = "thrown"
             /\ Is(c, i, "waitPort", "other")
             /\ Is(c, i + 1, "getLogs", "ok"))
            => /\ call[c].err.kind = "descriptive"
               /\ Includes(call[c].err.msg,
                           IF call[c].stderr = <<>> THEN <<"(empty)">>
                           ELSE call[c].stderr)

(***************************************************************************)
(* Vocabulary of the claims about the startup entrypoint                   *)
(***************************************************************************)
SupervisorPcs == {"sup_top", "sup_launch", "sup_wait", "sup_sleep"}

Supervising == {i \in InvIds : inv[i].pc \in SupervisorPcs}

SetupSteps == {"restore", "onboard", "patch", "sync", "doctor", "marker"}

(***************************************************************************)
(* C7.  Exactly one cold path: whatever the sequence of invocations of the *)
(* entrypoint in one container lifetime, no second invocation ever begins  *)
(* the cold-path setup sequence.                                           *)
(***************************************************************************)
C7_OneColdPath == Len(coldBegun) <= 1

(***************************************************************************)
(* C8.  Warm/cold gate: an invocation that passed the guard is on the warm *)
(* path exactly if the gate found both the setup marker and the config     *)
(* file, and on the cold path if either was missing; a warm invocation is  *)
(* in the supervisor loop and has run no setup step, and only invocations  *)
(* that ran the sync step on the cold path have started a sync loop.       *)
(***************************************************************************)
C8_WarmColdGate ==
    /\ \A i \in InvIds :
          /\ inv[i].path = "warm" <=>
                (inv[i].pc \notin {"idle", "gate", "exited"}
                    /\ inv[i].saw.marker /\ inv[i].saw.config)
          /\ inv[i].path = "cold" <=>
                (inv[i].pc \notin {"idle", "gate", "exited"}
                    /\ ~(inv[i].saw.marker /\ inv[i].saw.config))
          /\ inv[i].path = "warm" =>
                /\ inv[i].pc \in SupervisorPcs
                /\ inv[i].ran = {}
          /\ inv[i].path = "cold" => \E k \in 1..Len(coldBegun) : coldBegun[k] = i
          /\ inv[i].ran \subseteq SetupSteps
    /\ syncLoops = Cardinality({i \in InvIds :
                        inv[i].path = "cold" /\ "sync" \in inv[i].ran})

\* The marker is there, the config file is lost: the cold path is taken.
C8_Witness ==
    \E i \in InvIds :
        /\ inv[i].path = "cold"
        /\ inv[i].saw.marker
        /\ ~inv[i].saw.config
        /\ \E j \in InvIds \ {i} : "marker" \in inv[j].ran

(***************************************************************************)
(* C9.  No double supervision: in every reachable state of a container at  *)
(* most one supervisor loop is active and at most one gateway executable   *)
(* is running.                                                             *)
(***************************************************************************)
C9_NoDoubleSupervision ==
    /\ Cardinality(Supervising) <= 1
    /\ Cardinality({i \in InvIds : inv[i].gw}) <= 1

(***************************************************************************)
(* C10.  Guard no-op: an invocation made while a gateway process is        *)
(* running exits with code 0 and changes nothing: the marker, the config   *)
(* file, the lock files, the sync loops, the cold-path record and the      *)
(* other invocations stay as they are, it runs no setup step and enters    *)
(* no supervisor loop; having exited, it never does anything more.         *)
(***************************************************************************)
C10_GuardNoOp ==
    [][\A i \in InvIds :
          /\ (inv[i].pc = "idle" /\ inv'[i].pc # "idle" /\ GatewayRunning)
                => /\ inv'[i] = [inv[i] EXCEPT !.pc = "exited", !.exit = 0]
                   /\ inv'[i].ran = {}
                   /\ inv'[i].path = "none"
                   /\ \A j \in InvIds \ {i} : inv'[j] = inv[j]
                   /\ UNCHANGED <<marker, config, locks, syncLoops, coldBegun>>
          /\ inv[i].pc = "exited" => inv'[i] = inv[i]]_vars

C10_Witness ==
    \E i \in InvIds :
        /\ inv[i].pc = "exited"
        /\ inv[i].exit = 0
        /\ GatewayRunning

(***************************************************************************)
(* C11.  Best-effort setup: whichever setup steps fail (restore,           *)
(* onboarding, config patch, doctor, marker write), a cold-path invocation *)
(* is never ended by the failure, and it eventually launches the gateway   *)
(* from the supervisor loop.                                               *)
(***************************************************************************)
C11_BestEffortSetup ==
    /\ [][\A i \in InvIds :
            inv[i].path = "cold" => inv'[i].pc # "exited"]_vars
    /\ \A i \in InvIds :
            (inv[i].path = "cold")
                ~> (inv[i].pc = "sup_wait" /\ inv[i].gw)

\* The gateway is up although the restore ran without bringing a config,
\* onboarding and the patch wrote none and the marker was not written.
C11_Witness ==
    \E i \in InvIds :
        /\ inv[i].path = "cold"
        /\ inv[i].gw
        /\ r2 /\ ~config /\ ~marker
        /\ {"restore", "onboard", "patch", "doctor", "marker"}
              \subseteq inv[i].ran

(***************************************************************************)
(* C12.  Supervisor delay rule: after a gateway exit, with c the counter   *)
(* after the classification of that exit, the supervisor sleeps            *)
(* min(c * 10, 120) seconds if c >= 5 and 3 seconds otherwise, and the     *)
(* next iteration starts when that sleep is over.                          *)
(***************************************************************************)
DelayRule(c) ==
    IF c >= 5 THEN (IF c * 10 < 120 THEN c * 10 ELSE 120) ELSE 3

C12_DelayRule ==
    /\ [](\A i \in InvIds :
            inv[i].pc = "sup_sleep"
                => inv[i].sleepFor = DelayRule(inv[i].rapid_crash_count))
    /\ [][\A i \in InvIds :
            (inv[i].pc = "sup_sleep" /\ inv'[i] # inv[i])
                => /\ inv'[i].pc = "sup_top"
                   /\ inv'[i].sinceStart - inv[i].sinceStart
                         = DelayRule(inv[i].rapid_crash_count)]_vars

\* The cap is in force: 13 * 10 would be 130.
C12_Witness ==
    \E i \in InvIds :
        /\ inv[i].pc = "sup_sleep"
        /\ inv[i].rapid_crash_count = 13
        /\ inv[i].sleepFor = 120

(***************************************************************************)
(* C13.  Crash-sequence backoff.  As claimed: after the N-th of N          *)
(* consecutive gateway runs that each lasted under 30 s (N >= 5), the      *)
(* sleep before the restart is min((N - 4) * 10, 120) seconds.             *)
(***************************************************************************)
C13_AsClaimed ==
    \A i \in InvIds :
        (inv[i].pc = "sup_sleep" /\ inv[i].streak >= 5)
            => inv[i].sleepFor =
                  (IF (inv[i].streak - 4) * 10 < 120
                   THEN (inv[i].streak - 4) * 10 ELSE 120)

(***************************************************************************)
(* C13, amended.  After the N-th of N consecutive gateway runs that each   *)
(* lasted under 30 s, the sleep before the restart is min(N * 10, 120)     *)
(* seconds if N >= 5, and 3 seconds if N < 5.                              *)
(***************************************************************************)
C13_CrashSequenceBackoff ==
    \A i \in InvIds :
        inv[i].pc = "sup_sleep"
            => inv[i].sleepFor =
                  (IF inv[i].streak >= 5
                   THEN (IF inv[i].streak * 10 < 120
                         THEN inv[i].streak * 10 ELSE 120)
                   ELSE 3)

C13_Witness ==
    \E i \in InvIds :
        /\ inv[i].pc = "sup_sleep"
        /\ inv[i].streak = 5
        /\ inv[i].sleepFor = 50

(***************************************************************************)
(* C14.  Crash counter invariant: the counter starts at 0; a gateway exit  *)
(* sets it to 0 if the run lasted 30 s or more (30 s included) and adds 1  *)
(* to it otherwise; so it always is the number of most recent consecutive  *)
(* runs of this supervisor that lasted under 30 s.                         *)
(***************************************************************************)
C14_CrashCounter ==
    /\ [](\A i \in InvIds :
            /\ inv[i].rapid_crash_count = inv[i].streak
            /\ inv[i].pc \notin SupervisorPcs
                  => inv[i].rapid_crash_count = 0)
    /\ [][\A i \in InvIds :
            (inv[i].pc = "sup_wait" /\ inv'[i].pc # "sup_wait")
                => inv'[i].rapid_crash_count =
                      (IF inv'[i].ranFor >= 30 THEN 0
                       ELSE inv[i].rapid_crash_count + 1)]_vars

\* A run of exactly 30 s ends a streak that had set in.
C14_Witness ==
    \E i \in InvIds :
        /\ inv[i].pc = "sup_sleep"
        /\ inv[i].ranFor = 30
        /\ inv[i].rapid_crash_count = 0
        /\ inv[i].gap \in 0..29

(***************************************************************************)
(* C15.  Crash classification interval.  As claimed: the elapsed time      *)
(* compared with the window is the time from the start of the previous     *)
(* attempt to the start of the current attempt.                            *)
(***************************************************************************)
C15_AsClaimed ==
    \A i \in InvIds :
        (inv[i].pc = "sup_sleep" /\ inv[i].gap # -1)
            => inv[i].elapsed = inv[i].gap

(***************************************************************************)
(* C15, amended.  The elapsed time compared with the window is the time    *)
(* from the start of the attempt that just ended to the exit of its        *)
(* gateway, that is how long that run lasted; the sleep before it and the  *)
(* start of the attempt before it have no part in it.                      *)
(***************************************************************************)
C15_ClassificationInterval ==
    \A i \in InvIds :
        inv[i].pc = "sup_sleep"
            => /\ inv[i].elapsed = inv[i].ranFor
               /\ inv[i].elapsed = inv[i].sinceStart
               /\ (inv[i].rapid_crash_count = 0) <=> (inv[i].ranFor >= 30)

\* Two starts more than 30 s apart, the second run a rapid crash.
C15_Witness ==
    \E i \in InvIds :
        /\ inv[i].pc = "sup_sleep"
        /\ inv[i].gap >= 30
        /\ inv[i].elapsed = 1
        /\ inv[i].rapid_crash_count >= 1

(***************************************************************************)
(* C16.  Supervisor liveness: an invocation that is in the supervisor loop *)
(* stays in it, and after every gateway exit, whatever the counter, the    *)
(* gateway is eventually launched again.                                   *)
(***************************************************************************)
C16_SupervisorLiveness ==
    /\ [][\A i \in InvIds :
            inv[i].pc \in SupervisorPcs
                => inv'[i].pc \in SupervisorPcs]_vars
    /\ \A i \in InvIds :
            (inv[i].pc = "sup_sleep")
                ~> (inv[i].pc = "sup_wait" /\ inv[i].gw)

\* The gateway is up again after a backoff sleep.
C16_Witness ==
    \E i \in InvIds :
        /\ inv[i].pc = "sup_wait"
        /\ inv[i].gw
        /\ inv[i].rapid_crash_count >= MAX_RAPID_CRASHES

(***************************************************************************)
(* C17.  Lock cleanup ordering: no gateway is ever launched while a lock   *)
(* file left behind by an instance that has exited is present: at every    *)
(* launch either no lock file exists or a gateway that holds it is up.     *)
(***************************************************************************)
C17_NoStaleLockAtLaunch ==
    [][\A i \in InvIds :
          (inv[i].pc = "sup_launch" /\ inv'[i].pc = "sup_wait")
              => (locks = {} \/ GatewayRunning)]_vars

(***************************************************************************)
(* Vocabulary of the claims about the environment bundle                   *)
(***************************************************************************)
Built == envVars \notin {NotBuilt, HandedOver}

(***************************************************************************)
(* C18.  Token isolation: whatever the environment, the record returned by *)
(* buildEnvVars has no key OPENCLAW_GATEWAY_TOKEN, and it carries the      *)
(* gateway token under SANDBOX_GATEWAY_TOKEN and under no other key; and   *)
(* whenever a gateway launched by the supervisor is up, on the warm or the *)
(* cold path, OPENCLAW_GATEWAY_TOKEN is unset in the environment it was    *)
(* launched in.                                                            *)
(***************************************************************************)
C18_TokenIsolation ==
    /\ Built =>
          /\ "OPENCLAW_GATEWAY_TOKEN" \notin DOMAIN envVars
          /\ "MOLTBOT_GATEWAY_TOKEN" \notin DOMAIN envVars
          /\ Truthy(workerEnv["MOLTBOT_GATEWAY_TOKEN"])
                <=> "SANDBOX_GATEWAY_TOKEN" \in DOMAIN envVars
          /\ Truthy(workerEnv["MOLTBOT_GATEWAY_TOKEN"])
                => \A k \in DOMAIN envVars :
                      envVars[k] = workerEnv["MOLTBOT_GATEWAY_TOKEN"]
                          <=> k = "SANDBOX_GATEWAY_TOKEN"
    /\ \A i \in InvIds :
          (inv[i].gw \/ inv[i].pc \in SupervisorPcs) => ~inv[i].tokenSet

\* Gateways are up on the cold and on the warm path whose scripts were
\* started with the token in their environment.
C18_Witness ==
    /\ envVars = HandedOver
    /\ \E i, j \in InvIds :
          /\ inv[i].path = "cold" /\ inv[j].path = "warm"
          /\ inv[i].gw /\ inv[i].tokenAtStart /\ ~inv[i].tokenSet
          /\ inv[j].gw /\ inv[j].tokenAtStart /\ ~inv[j].tokenSet

(***************************************************************************)
(* C19.  Environment bundle has no empty values: whatever the environment, *)
(* every key of the record returned by buildEnvVars maps to a string that  *)
(* is not empty.                                                           *)
(***************************************************************************)
C19_NoEmptyValues ==
    Built => \A k \in DOMAIN envVars : envVars[k] # <<>>

(***************************************************************************)
(* C20.  Cache trust: the lookup returns the cached process only when its  *)
(* status is starting or running.  When the cache is fresh and holds a     *)
(* process of any other status, the same lookup invalidates the cache and  *)
(* issues listProcesses.                                                   *)
(***************************************************************************)
LooksUp(c) ==
    /\ call[c].pc = "rclone"
    /\ call'[c].pc \in {"probe", "list"}

C20_CacheTrust ==
    /\ [](\A c \in CallerIds :
             \A i \in 1..Len(Hist(c)) :
                 Hist(c)[i].op = "cacheStale" => NextOp(c, i) = "list")
    /\ [][\A c \in CallerIds :
             LooksUp(c) =>
                 /\ call'[c].pc = "probe" =>
                        /\ CacheFresh
                        /\ cachedProcess.status \in LiveStatuses
                        /\ call'[c].existing = cachedProcess
                 /\ (CacheFresh /\ cachedProcess.status \notin LiveStatuses)
                        => /\ call'[c].pc = "list"
                           /\ cachedProcess' = NoProc
                           /\ ~cacheStamped'
                           /\ ~CacheFresh']_vars

\* A lookup found the cache fresh with a process that had ended, and the
\* listProcesses it issued has settled.
C20_Witness ==
    \E c \in CallerIds :
        \E i \in 1..Len(Hist(c)) :
            /\ Hist(c)[i].op = "cacheStale"
            /\ i < Len(Hist(c))
            /\ Hist(c)[i + 1].op = "list"

(***************************************************************************)
(* C21.  Cache invalidation: whenever a kill or a startProcess issued by   *)
(* an attempt settles, with success or with failure, the process cache is  *)
(* invalidated (no process, timestamp 0) when the attempt goes on or ends. *)
(***************************************************************************)
C21_InvalidatedOnKillOrStart ==
    [][\A c \in CallerIds :
          (call[c].pc \in {"kill", "start"} /\ call'[c].pc # call[c].pc)
              => (cachedProcess' = NoProc /\ ~cacheStamped')]_vars

(***************************************************************************)
(* C22.  Cache hit avoids enumeration: a lookup made less than 2 s after   *)
(* a lookup stored its result, with no invalidation in between, issues no  *)
(* listProcesses, whether the stored result is a live process or null; it  *)
(* goes on with the stored result.                                         *)
(***************************************************************************)
C22_HitAvoidsEnumeration ==
    [][\A c \in CallerIds :
          ( /\ LooksUp(c)
            /\ cacheStamped
            /\ sinceStamp < PROCESS_CACHE_TTL_MS
            /\ (cachedProcess = NoProc
                   \/ cachedProcess.status \in LiveStatuses) )
              => /\ call'[c].pc # "list"
                 /\ call'[c].existing = cachedProcess]_vars

(***************************************************************************)
(* C23.  Bounded duplicate spawns: an attempt calls startProcess at most   *)
(* once; a call of ensureMoltbotGateway, having at most                    *)
(* DO_RESET_MAX_RETRIES + 1 attempts, starts at most 4 processes; and as   *)
(* long as no runtime call has failed, the callers that have entered have  *)
(* started at most one process each, so K of them at most K.               *)
(***************************************************************************)
StartsIssued(c) ==
    Cardinality({i \in 1..Len(Hist(c)) : Hist(c)[i].op = "start"})

NoFailureSoFar(c) ==
    /\ call[c].attempt = 0
    /\ call[c].fails = <<>>
    /\ \A i \in 1..Len(Hist(c)) : Hist(c)[i].kind = "ok"

C23_BoundedSpawns ==
    /\ \A c \in CallerIds :
          /\ StartsIssued(c) <= 1
          /\ call[c].spawned <= call[c].attempt + 1
          /\ call[c].spawned <= DO_RESET_MAX_RETRIES + 1
    /\ (\A c \in CallerIds : NoFailureSoFar(c))
          => /\ \A c \in CallerIds : call[c].spawned <= 1
             /\ Len(procs) <= Cardinality(Entered)

\* One call has started four processes, one in each of its attempts, and
\* a concurrent caller that found no live process has started a fifth.
C23_Witness ==
    /\ call[1].spawned = DO_RESET_MAX_RETRIES + 1
    /\ call[2].spawned = 1
    /\ Len(procs) = MaxSpawns

(***************************************************************************)
(* C29.  Process matching: when listProcesses has answered, the lookup     *)
(* yields a listed process only if its command contains one of the four    *)
(* startup-script or gateway substrings, contains none of the five CLI     *)
(* substrings, and its status is starting or running; it yields the first  *)
(* such process in listing order, and null when there is none.             *)
(***************************************************************************)
GatewaySubstrings ==
    { <<"start-openclaw.sh">>, <<"openclaw", "gateway">>,
      <<"start-moltbot.sh">>, <<"clawdbot", "gateway">> }

CliSubstrings ==
    { <<"openclaw", "devices">>, <<"openclaw", "--version">>,
      <<"openclaw", "onboard">>, <<"clawdbot", "devices">>,
      <<"clawdbot", "--version">> }

Qualifies(p) ==
    /\ \E g \in GatewaySubstrings : Includes(p.command, g)
    /\ \A k \in CliSubstrings : ~Includes(p.command, k)
    /\ p.status \in {"starting", "running"}

\* The lookup of caller c has ended with the answer of listProcesses.
Listed(c) ==
    /\ Hist(c) # <<>>
    /\ Hist(c)[Len(Hist(c))] = Event("list", 0, "ok")

C29_ProcessMatching ==
    \A c \in CallerIds :
        Listed(c) =>
            IF \E n \in 1..Len(procs) : Qualifies(procs[n])
            THEN /\ call[c].pc = "probe"
                 /\ \E n \in 1..Len(procs) :
                       /\ call[c].existing = procs[n]
                       /\ Qualifies(procs[n])
                       /\ \A k \in 1..(n - 1) : ~Qualifies(procs[k])
            ELSE /\ call[c].pc = "start"
                 /\ call[c].existing = NoProc

\* The lookup passed over a process whose command holds a gateway and a
\* CLI substring and yielded the live gateway process listed after it.
C29_Witness ==
    /\ Listed(1)
    /\ Len(procs) = 2
    /\ procs[1].status = "running"
    /\ isGatewayProcess(procs[1].command)
    /\ isCliCommand(procs[1].command)
    /\ call[1].existing = procs[2]
    /\ call[1].existing.id = 2

(***************************************************************************)
(* C24.  Restore deadline: with the credentials present the cold path has  *)
(* left the restore for onboarding when 60 s have passed since the restore *)
(* began, whether or not its sub-restores end; when the 60 s expire the    *)
(* sub-restores still under way are ended, and none is running once the    *)
(* restore is left.                                                        *)
(***************************************************************************)
C24_RestoreDeadline ==
    /\ [](restore.pc = "running" =>
             /\ inv[1].pc = "restore"
             /\ restore.clock <= RESTORE_TIMEOUT)
    /\ [](restore.pc = "done" =>
             /\ inv[1].pc # "restore"
             /\ restore.clock <= RESTORE_TIMEOUT
             /\ \A t \in SubRestores : restore.task[t] # "running"
             /\ restore.timedOut =>
                    /\ restore.clock = RESTORE_TIMEOUT
                    /\ "restore" \in inv[1].ran)
    /\ [][(restore.pc = "running" /\ restore'.pc = "done")
             => inv'[1].pc = "onboard"]_vars
    /\ (restore.pc = "running") ~> (restore.pc = "done")

\* The 60 s expired with one sub-restore ended and two under way, and the
\* script has gone on past onboarding.
C24_Witness ==
    /\ restore.pc = "done"
    /\ restore.timedOut
    /\ restore.task["config"] = "ended"
    /\ restore.task["workspace"] = "killed"
    /\ restore.task["skills"] = "killed"
    /\ "onboard" \in inv[1].ran

(***************************************************************************)
(* C25.  Marker implies config: in every step in which the cold path       *)
(* writes the setup marker, the config file exists.                        *)
(***************************************************************************)
C25_MarkerImpliesConfig ==
    [][\A i \in InvIds :
          (inv[i].pc = "mark" /\ inv'[i].pc = "sup_top"
               /\ ~marker /\ marker')
              => (config /\ config')]_vars

(***************************************************************************)
(* C26.  Idle sync cycle: a cycle whose finds print no file newer than the *)
(* marker issues no remote-storage command and leaves the marker and the   *)
(* last-sync timestamp as they were; a remote-storage command is issued    *)
(* only in a cycle whose set of changed files is not empty.                *)
(***************************************************************************)
C26_IdleSyncCycle ==
    /\ [](sync # NotFollowed =>
             /\ sync.pc # "sleep" => sync.changed # {}
             /\ sync.cmds # <<>> => sync.changed # {})
    /\ [][(sync # NotFollowed /\ sync.pc = "sleep" /\ sync'.cycle # sync.cycle
               /\ Found(sync.newer) = {})
             => /\ sync'.pc = "sleep"
                /\ sync'.cmds = <<>>
                /\ sync'.marker = sync.marker
                /\ sync'.lastSync = sync.lastSync]_vars

\* A cycle has ended that found nothing to upload although a file under
\* node_modules had been written since the marker was touched.
C26_Witness ==
    /\ sync # NotFollowed
    /\ sync.pc = "sleep"
    /\ sync.cycle = 2
    /\ sync.changed = {}
    /\ sync.newer = {"node_modules/pkg.js"}
    /\ sync.marker = 1

(***************************************************************************)
(* C27.  Sync marker advances only on success: the marker and the          *)
(* last-sync timestamp are advanced only at the end of a cycle whose       *)
(* uploads all succeeded; after a cycle with a failed upload the files     *)
(* changed before it are still newer than the marker.                      *)
(***************************************************************************)
C27_MarkerOnlyOnSuccess ==
    [][(sync # NotFollowed /\ sync.pc = "stamp")
          => IF \A n \in 1..Len(sync.cmds) : sync.cmds[n].ok
             THEN sync'.marker = sync.cycle /\ sync'.lastSync = sync.cycle
             ELSE /\ sync'.marker = sync.marker
                  /\ sync'.lastSync = sync.lastSync
                  /\ sync.changed \subseteq Found(sync'.newer)]_vars

(***************************************************************************)
(* C28.  Config patch idempotence: for every input document (absent,      *)
(* unparseable, or any parsed document) and every fixed environment, a     *)
(* run of the patch over the file a first run left yields that file        *)
(* again: applying the patch twice equals applying it once.                *)
(***************************************************************************)
C28_PatchIdempotent ==
    [][(patch # NotFollowed /\ patch.runs >= 1
            /\ patch'.runs = patch.runs + 1)
          => patch'.file = patch.file]_vars

\* Two runs have been made over an object document written by an earlier
\* version, with Telegram open to a list of ids: the first run rewrote the
\* document, and the list ends in "*" once.
C28_Witness ==
    /\ patch # NotFollowed
    /\ patch.runs = 2
    /\ patch.input.k = "obj"
    /\ patch.file # patch.input
    /\ GetPath(patch.file, P3("channels", "telegram", "allowFrom"))
           = Arr(<<Str(<<"1">>), Str(<<"2">>), Str(<<"*">>)>>)
    /\ GetPath(patch.file, P2("gateway", "trustedProxies"))
           = Arr(<<Str(<<"10.1.0.0">>)>>)

(***************************************************************************)
(* C30.  Doctor rollback: for every state of the config file before the    *)
(* doctor step, absent included, if the file after the doctor holds a      *)
(* known secret marker, then when the step finishes the file is exactly    *)
(* what it was immediately before the doctor ran.                          *)
(***************************************************************************)
C30_DoctorRollback ==
    [][(doctor # NotFollowed /\ doctor.pc = "check"
            /\ doctor'.pc = "done" /\ Exposes(doctor.config))
          => doctor'.config = doctor.before]_vars

(***************************************************************************)
(* C31.  No kill of an in-progress cold start: with two concurrent         *)
(* callers, a process that one caller has started and whose startup port   *)
(* wait it is still awaiting is never killed by the other caller.          *)
(***************************************************************************)
C31_ColdStartNotKilled ==
    \A d \in CallerIds :
        call[d].pc = "waitPort" => StatusOf(call[d].process.id) # "killed"

(***************************************************************************)
(* C32.  No stale cache after kill: under every interleaving of the        *)
(* callers that share the cache, once a caller has killed a process and    *)
(* invalidated the cache, no later lookup returns the descriptor of that   *)
(* process from the cache.                                                 *)
(***************************************************************************)
C32_NoStaleCacheAfterKill ==
    [][\A c \in CallerIds :
          (LooksUp(c) /\ call'[c].pc = "probe")
              => StatusOf(call'[c].existing.id) # "killed"]_vars

(***************************************************************************)
(* C33.  Old process gone before replacement: whenever an attempt issues   *)
(* startProcess after the liveness probe of an existing process failed,    *)
(* the kill of that process has settled with success.                      *)
(***************************************************************************)
C33_KilledBeforeReplaced ==
    \A c \in CallerIds :
        \A i \in 1..Len(Hist(c)) :
            (Failed(c, i, "probe")
                 /\ (call[c].pc = "start" \/ Did(c, "start")))
            => Is(c, i + 1, "kill", "ok")

(***************************************************************************)
(* C34.  Retry classification depends only on the failing runtime call: a  *)
(* fresh start whose port wait failed with an error that is not a host     *)
(* reset, and whose logs were then read, is not retried, whatever the      *)
(* started process wrote to its stderr.                                    *)
(***************************************************************************)
C34_RetryIgnoresOutput ==
    \A c \in CallerIds :
        \A i \in 1..Len(Hist(c)) :
            (Is(c, i, "waitPort", "other") /\ Is(c, i + 1, "getLogs", "ok"))
            => call[c].pc # "sleep"

(***************************************************************************)
(* C35.  Process-listing failure handling: when listProcesses fails with   *)
(* a host-reset error the lookup rethrows it and stores nothing in the     *)
(* cache; when it fails with any other error the lookup returns no         *)
(* process, stores that result with the current time, and the attempt      *)
(* issues startProcess.                                                    *)
(***************************************************************************)
C35_ListingFailure ==
    [][\A c \in CallerIds :
          (call[c].pc = "list" /\ call'[c].pc # "list")
          => LET ev == call'[c].hist[Len(call[c].hist) + 1] IN
             /\ ev.op = "list"
             /\ ev.kind = "reset"
                   => /\ call'[c].pc \in {"sleep", "thrown"}
                      /\ call'[c].err.origin = "list"
                      /\ isDurableObjectReset(call'[c].err)
                      /\ cachedProcess' = cachedProcess
                      /\ cacheStamped' = cacheStamped
                      /\ sinceStamp' = sinceStamp
             /\ ev.kind = "other"
                   => /\ call'[c].pc = "start"
                      /\ call'[c].existing = NoProc
                      /\ cachedProcess' = NoProc
                      /\ cacheStamped'
                      /\ sinceStamp' = 0]_vars

\* A listing failed with an error that is not a host reset while a
\* process was running, and the attempt started another one.
C35_Witness ==
    \E c \in CallerIds :
        /\ Is(c, 2, "list", "other")
        /\ Is(c, 3, "start", "ok")
        /\ \E i \in 1..Len(procs) : Matches(procs[i]) /\ procs[i].id = 1

(***************************************************************************)
(* C36.  Returned process was probed: every process handle that            *)
(* ensureMoltbotGateway returns has, in the attempt that returned it,      *)
(* completed a successful port wait: the probe of a reused process or the  *)
(* startup wait of a freshly started one.                                  *)
(***************************************************************************)
C36_ReturnedWasProbed ==
    \A c \in CallerIds :
        call[c].pc = "returned"
        => /\ call[c].result # NoProc
           /\ \E i \in 1..Len(Hist(c)) :
                 /\ Hist(c)[i].pid = call[c].result.id
                 /\ \/ Is(c, i, "probe", "ok")
                          /\ call[c].result = call[c].existing
                    \/ Is(c, i, "waitPort", "ok")
                          /\ call[c].result = call[c].process
                          /\ \E k \in 1..(i - 1) : Is(c, k, "start", "ok")

\* A retried call returned the process it started in its second attempt,
\* after the probe of an existing process had failed and it was killed.
C36_Witness ==
    \E c \in CallerIds :
        /\ call[c].pc = "returned"
        /\ call[c].attempt = 1
        /\ \E i \in 1..Len(Hist(c)) : Failed(c, i, "probe")
        /\ call[c].result = call[c].process
        /\ call[c].result.id = 2

(***************************************************************************)
(* C37.  No lost modification in the sync loop: a file of the config or    *)
(* workspace tree that is written while a cycle is in progress, after the  *)
(* cycle's upload of its tree and before the cycle touches the marker, is  *)
(* still newer than the marker when the cycle ends, so a later cycle       *)
(* reports it without a further write.                                     *)
(***************************************************************************)
C37_NoLostModification ==
    [][(sync # NotFollowed /\ sync.pc = "stamp" /\ sync'.pc = "sleep"
            /\ \A n \in 1..Len(sync.cmds) : sync.cmds[n].ok)
          => Found(sync'.pending) \subseteq Found(sync'.newer)]_vars

====
